---- MODULE Spec2Model ----
(***************************************************************************)
(* tmcg: schema-driven generation of main.tf / variables.tf, the           *)
(* diagnostic extractor and the single-retry repair loop.                  *)
(*                                                                         *)
(* Strings are TLA+ strings; Len, SubSeq and \o act on them character by   *)
(* character.  A Go map is a function whose DOMAIN is its key set.  A nil  *)
(* pointer is the record NilBlock.  An hclwrite body is the sequence of    *)
(* its items (attributes, blocks, raw token lines, newlines) in order.     *)
(***************************************************************************)
EXTENDS Integers, Sequences, FiniteSets, TLC

VARIABLES
    pc,                  \* the operation that runs next
    resources,           \* []parsing.Resource, in the order requested
    cleanedSchema,       \* map[providerKey] -> ResourceSchemas -> Schema
    descAsCommentsFlag,  \* --desc-as-comment
    mainTF,              \* main.tf on disk (NoFile before the first write)
    variablesTF,         \* variables.tf on disk
    err,                 \* the error the last operation returned ("" = nil)
    jsonOutput,          \* the validator output handed to the parser
    validationErrors,    \* map[address] -> []attribute, or NilMap
    log,                 \* entries logged so far: Run's own, the validator's, the
                         \* repair's, and the opening entry of each generator call
    exitReturns,         \* whether the exitFunc passed to Run returns
    failures,            \* the places in Run that have called exitFunc(1)
    resourcePtrs,        \* --resource, as given on the command line
    providers,           \* map[namespace/name] -> parsing.Provider
    schemaJSON,          \* the *tfjson.ProviderSchemas terraform returned
    filteredSchema       \* the *tfjson.ProviderSchemas FilterSchema returned

vars == <<pc, resources, cleanedSchema, descAsCommentsFlag, mainTF, variablesTF,
          err, jsonOutput, validationErrors, log, exitReturns, failures,
          resourcePtrs, providers, schemaJSON, filteredSchema>>

(***************************************************************************)
(* Bounds                                                                  *)
(***************************************************************************)
\* nested-block levels below a resource's root Block
MaxDepth == 2

(***************************************************************************)
(* Strings                                                                 *)
(***************************************************************************)
Min(S) == CHOOSE x \in S : \A y \in S : x <= y

Char(s, i) == SubSeq(s, i, i)

HasPrefixAt(s, i, p) == i + Len(p) - 1 <= Len(s) /\ SubSeq(s, i, i + Len(p) - 1) = p

\* strings.HasPrefix
HasPrefix(s, p) == HasPrefixAt(s, 1, p)

\* strings.Index from position i on, 1-based; 0 when sub does not occur
IndexFrom(s, sub, i) ==
    LET I == {j \in i..(Len(s) - Len(sub) + 1) : HasPrefixAt(s, j, sub)}
    IN IF I = {} THEN 0 ELSE Min(I)

Contains(s, sub) == IndexFrom(s, sub, 1) # 0

\* the bytes that occur in names and addresses, in ascending byte order
AsciiOrder == ".0123456789_abcdefghijklmnopqrstuvwxyz"

Ord(c) == CHOOSE i \in 1..Len(AsciiOrder) : Char(AsciiOrder, i) = c

\* Go's < on strings: bytewise lexicographic
StrLess(a, b) ==
    LET n == Min({Len(a), Len(b)})
        D == {i \in 1..n : Char(a, i) # Char(b, i)}
    IN IF D = {} THEN Len(a) < Len(b)
       ELSE Ord(Char(a, Min(D))) < Ord(Char(b, Min(D)))

RECURSIVE SortStrings(_)
\* sort.Strings on the names collected from the maps of one Block
SortStrings(S) ==
    IF S = {} THEN <<>>
    ELSE LET m == CHOOSE x \in S : \A y \in S \ {x} : StrLess(x, y)
         IN <<m>> \o SortStrings(S \ {m})

RECURSIVE Repeat(_, _)
\* strings.Repeat
Repeat(s, n) == IF n = 0 THEN "" ELSE s \o Repeat(s, n - 1)

(***************************************************************************)
(* Schema model (tfjson.SchemaBlock, SchemaAttribute, SchemaBlockType)     *)
(***************************************************************************)
EmptyMap == [x \in {} |-> x]

NilBlock == [nil |-> TRUE]

IsNil(b) == "nil" \in DOMAIN b

DeleteKey(m, k) == [x \in (DOMAIN m) \ {k} |-> m[x]]

TString == [kind |-> "primitive", name |-> "string"]
TMapString == [kind |-> "map", elem |-> TString]

Attr(t, req, opt, comp, desc) ==
    [AttributeType |-> t, Required |-> req, Optional |-> opt, Computed |-> comp,
     Description |-> desc]

\* the attribute maps a Block of the bounded schemas may carry
AttributeMaps ==
    { ("ami" :> Attr(TString, TRUE, FALSE, FALSE, ""))
        @@ ("id" :> Attr(TString, FALSE, FALSE, TRUE, ""))
        @@ ("tags" :> Attr(TMapString, FALSE, TRUE, FALSE, "Tags")),
      ("arn" :> Attr(TString, FALSE, FALSE, TRUE, ""))
        @@ ("name" :> Attr(TString, FALSE, TRUE, TRUE, "")) }

\* nesting_mode / min_items / max_items of the bounded nested blocks; "group"
\* is a nesting mode of tfjson the generator has no case for
BlockShapes ==
    { [NestingMode |-> "single", MinItems |-> 0, MaxItems |-> 1],
      [NestingMode |-> "list", MinItems |-> 1, MaxItems |-> 0],
      [NestingMode |-> "group", MinItems |-> 0, MaxItems |-> 0] }

BlockName == "ebs"

RECURSIVE Blocks(_)
\* every Block of nesting depth <= d; a nested block's inner Block may be nil
Blocks(d) ==
    IF d = 0
    THEN {[Attributes |-> a, NestedBlocks |-> EmptyMap, Description |-> ""] :
            a \in AttributeMaps}
    ELSE LET inner == Blocks(d - 1) \cup {NilBlock}
             nbs == {EmptyMap} \cup
                    { BlockName :> [NestingMode |-> s.NestingMode,
                                    MinItems |-> s.MinItems,
                                    MaxItems |-> s.MaxItems,
                                    Block |-> b] : s \in BlockShapes, b \in inner }
         IN {[Attributes |-> a, NestedBlocks |-> n, Description |-> ""] :
               a \in AttributeMaps, n \in nbs}

ProviderAws ==
    [Namespace |-> "hashicorp", Name |-> "aws", Version |-> ">= 0",
     NamespaceLower |-> "hashicorp", NameLower |-> "aws"]

\* the key CreateMainTF and CreateVariablesTF look a provider's schema up under
ProviderKey(provider) ==
    "registry.terraform.io/" \o provider.NamespaceLower \o "/" \o provider.NameLower

(***************************************************************************)
(* Schema Normalizer                                                       *)
(***************************************************************************)
ComputedOnly(a) == a.Computed /\ ~a.Optional /\ ~a.Required

\* a pruning that stops at the root Block
RemoveComputedAttributesFromBlock_RootOnly(block) ==
    IF IsNil(block) THEN block
    ELSE [block EXCEPT
            !.Attributes = [n \in {x \in DOMAIN block.Attributes :
                                     ~ComputedOnly(block.Attributes[x])}
                              |-> block.Attributes[n]]]

RECURSIVE RemoveComputedAttributesFromBlock_LevelPerPass(_)
\* a pruning that descends into the nested blocks only of a Block it found
\* nothing to prune in
RemoveComputedAttributesFromBlock_LevelPerPass(block) ==
    IF IsNil(block) THEN block
    ELSE IF \E x \in DOMAIN block.Attributes : ComputedOnly(block.Attributes[x])
    THEN [block EXCEPT
            !.Attributes = [n \in {x \in DOMAIN block.Attributes :
                                     ~ComputedOnly(block.Attributes[x])}
                              |-> block.Attributes[n]]]
    ELSE [block EXCEPT
            !.NestedBlocks = [n \in DOMAIN block.NestedBlocks |->
                                [block.NestedBlocks[n] EXCEPT
                                   !.Block = RemoveComputedAttributesFromBlock_LevelPerPass(@)]]]

RECURSIVE RemoveComputedAttributesFromBlock(_)
RemoveComputedAttributesFromBlock(block) ==
    IF IsNil(block) THEN block
    ELSE [block EXCEPT
            !.Attributes = [n \in {x \in DOMAIN block.Attributes :
                                     ~ComputedOnly(block.Attributes[x])}
                              |-> block.Attributes[n]],
            !.NestedBlocks = [n \in DOMAIN block.NestedBlocks |->
                                [block.NestedBlocks[n] EXCEPT
                                   !.Block = RemoveComputedAttributesFromBlock(@)]]]

\* RemoveComputedAttributes on every resource of every provider
RemoveComputedAttributesOf(schemas) ==
    [p \in DOMAIN schemas |->
       [ResourceSchemas |->
          [r \in DOMAIN schemas[p].ResourceSchemas |->
             [Block |-> RemoveComputedAttributesFromBlock(
                           schemas[p].ResourceSchemas[r].Block)]]]]

(***************************************************************************)
(* hclwrite: a body is the sequence of its items                           *)
(***************************************************************************)
Attribute(name, expr) == [kind |-> "attribute", name |-> name, expr |-> expr]

NewBlock(type, labels, body) ==
    [kind |-> "block", type |-> type, labels |-> labels, body |-> body]

Newline == [kind |-> "newline"]

\* AppendUnstructuredTokens of one identifier token and a newline token
TokenLine(text) == [kind |-> "tokens", text |-> text]

\* AppendUnstructuredTokens of one comment token and a newline token
CommentLine(text) == [kind |-> "comment", text |-> text]

IsAttributeNamed(item, name) == item.kind = "attribute" /\ item.name = name

\* Body.SetAttributeRaw: an attribute of that name keeps its place and gets the
\* new expression; otherwise the attribute is appended
SetAttributeRaw(body, name, expr) ==
    IF \E i \in 1..Len(body) : IsAttributeNamed(body[i], name)
    THEN [i \in 1..Len(body) |->
            IF IsAttributeNamed(body[i], name) THEN Attribute(name, expr) ELSE body[i]]
    ELSE Append(body, Attribute(name, expr))

\* formatted: terraform fmt has rewritten the file since it was written
NoFile == [written |-> FALSE, body |-> <<>>, formatted |-> FALSE]

FileOf(body) == [written |-> TRUE, body |-> body, formatted |-> FALSE]

\* the outcome of a generator: a Go panic (nil dereference), or the body built
Built(body) == [panic |-> FALSE, body |-> body]
Panicked == [panic |-> TRUE, body |-> <<>>]

(***************************************************************************)
(* cleanupHCLFile, on items: a newline item renders as one blank line      *)
(***************************************************************************)
LeadingSpaces(s) ==
    LET N == {i \in 0..Len(s) : \A j \in 1..i : Char(s, j) = " "}
    IN CHOOSE i \in N : \A k \in N : k <= i

\* a rendered line whose first non-space character is a closing brace
StartsWithBrace(item) ==
    item.kind = "tokens" /\ HasPrefixAt(item.text, LeadingSpaces(item.text) + 1, "}")

RECURSIVE CleanupBody(_, _)
\* closes: the body is a block's, so a closing brace follows its last item
CleanupBody(items, closes) ==
    LET cleaned == [i \in 1..Len(items) |->
                      IF items[i].kind = "block"
                      THEN [items[i] EXCEPT !.body = CleanupBody(@, TRUE)]
                      ELSE items[i]]
        n == Len(cleaned)
        \* the first item after i that is not a blank line (n + 1: the end)
        NextLine(i) == Min({j \in (i + 1)..(n + 1) :
                              j = n + 1 \/ cleaned[j].kind # "newline"})
        BeforeBrace(i) == LET j == NextLine(i)
                          IN IF j = n + 1 THEN closes ELSE StartsWithBrace(cleaned[j])
        \* blank lines before a closing brace go; of a longer run one stays
        Keep(i) == \/ cleaned[i].kind # "newline"
                   \/ /\ ~BeforeBrace(i)
                      /\ (i = 1 \/ cleaned[i - 1].kind # "newline")
        kept == {i \in 1..n : Keep(i)}
    IN [k \in 1..Cardinality(kept) |->
          cleaned[CHOOSE i \in kept : Cardinality({j \in kept : j <= i}) = k]]

cleanupHCLFile(body) == CleanupBody(body, FALSE)

(***************************************************************************)
(* Dual Code Generator: main.tf                                            *)
(***************************************************************************)
\* pluralize.Plural on the resource names of the bounded schemas
Plural(word) ==
    IF Len(word) >= 2 /\ Char(word, Len(word)) = "y"
       /\ Char(word, Len(word) - 1) \notin {"a", "e", "i", "o", "u"}
    THEN SubSeq(word, 1, Len(word) - 1) \o "ies"
    ELSE word \o "s"

\* a derivation that keeps the resource type as it is
deriveVariableName_Verbatim(resource) == resource

deriveVariableName(resource) ==
    LET i == IndexFrom(resource, "_", 1)
    IN IF i # 0 THEN Plural(SubSeq(resource, i + 1, Len(resource))) ELSE resource

DynamicForEach(ref) == "can(coalesce(" \o ref \o ")) ? flatten([" \o ref \o "]) : []"

DynamicBlock(itemName, ref, contentBody) ==
    NewBlock("dynamic", <<itemName>>,
             <<Attribute("for_each", DynamicForEach(ref)),
               NewBlock("content", <<>>, contentBody)>>)

\* attributes first, nested blocks after them
ItemNames_AttributesFirst(attributes, nestedBlocks) ==
    SortStrings(DOMAIN attributes) \o SortStrings(DOMAIN nestedBlocks)

ItemNames(attributes, nestedBlocks) ==
    SortStrings((DOMAIN attributes) \cup (DOMAIN nestedBlocks))

RECURSIVE handleAttributesAndNestedBlocks(_, _, _, _)
RECURSIVE HandleItems(_, _, _, _, _)
\* the loop of handleAttributesAndNestedBlocks over the sorted item names
HandleItems(body, itemNames, attributes, nestedBlocks, prefix) ==
    IF itemNames = <<>> THEN Built(body)
    ELSE LET itemName == Head(itemNames)
             ref == prefix \o "." \o itemName
         IN IF itemName \notin DOMAIN nestedBlocks
            THEN HandleItems(SetAttributeRaw(body, itemName, ref), Tail(itemNames),
                             attributes, nestedBlocks, prefix)
            ELSE LET blockSchema == nestedBlocks[itemName]
                 IN IF IsNil(blockSchema.Block)
                    THEN Panicked  \* blockSchema.Block.Attributes of a nil Block
                    ELSE LET content == handleAttributesAndNestedBlocks(
                                           <<>>, blockSchema.Block.Attributes,
                                           blockSchema.Block.NestedBlocks,
                                           itemName \o ".value")
                         IN IF content.panic THEN Panicked
                            ELSE HandleItems(
                                   body \o <<Newline,
                                             DynamicBlock(itemName, ref, content.body),
                                             Newline>>,
                                   Tail(itemNames), attributes, nestedBlocks, prefix)

handleAttributesAndNestedBlocks(resourceAttrs, attributes, nestedBlocks, prefix) ==
    HandleItems(resourceAttrs, ItemNames(attributes, nestedBlocks),
                attributes, nestedBlocks, prefix)

RECURSIVE MainItems(_, _, _, _)
\* the loop of CreateMainTF over the sorted top-level item names of one resource
MainItems(body, totalItems, block, mode) ==
    IF totalItems = <<>> THEN Built(body)
    ELSE LET itemName == Head(totalItems)
             rest == Tail(totalItems)
         IN IF itemName \in DOMAIN block.Attributes
            THEN IF mode = "single"
                 THEN MainItems(SetAttributeRaw(body, itemName, "var." \o itemName),
                                rest, block, mode)
                 ELSE LET r == handleAttributesAndNestedBlocks(
                                  body, itemName :> block.Attributes[itemName],
                                  EmptyMap, "each.value")
                      IN MainItems(r.body, rest, block, mode)
            ELSE LET blockSchema == block.NestedBlocks[itemName]
                     prefix == IF mode = "multiple" THEN "each.value." ELSE "var."
                 IN IF IsNil(blockSchema.Block)
                    THEN MainItems(body, rest, block, mode)  \* skipped with a warning
                    ELSE LET content == handleAttributesAndNestedBlocks(
                                           <<>>, blockSchema.Block.Attributes,
                                           blockSchema.Block.NestedBlocks,
                                           itemName \o ".value")
                         IN IF content.panic THEN Panicked
                            ELSE MainItems(
                                   body \o <<Newline,
                                             DynamicBlock(itemName, prefix \o itemName,
                                                          content.body),
                                             Newline>>,
                                   rest, block, mode)

ResourceForEach(variableName) ==
    "{ for i in coalesce(var." \o variableName \o ", []) : i.name => i }"

\* the resource block CreateMainTF builds for one resource
MainResourceBlock(resource, block) ==
    LET start == IF resource.Mode = "multiple"
                 THEN SetAttributeRaw(<<>>, "for_each",
                                      ResourceForEach(deriveVariableName(resource.Name)))
                 ELSE <<>>
        r == MainItems(start, ItemNames(block.Attributes, block.NestedBlocks),
                       block, resource.Mode)
    IN IF r.panic THEN Panicked
       ELSE Built(<<NewBlock("resource", <<resource.Name, "this">>, r.body), Newline>>)

HasSchema(schemas, resource) ==
    /\ ProviderKey(resource.Provider) \in DOMAIN schemas
    /\ resource.Name \in DOMAIN schemas[ProviderKey(resource.Provider)].ResourceSchemas

SchemaBlockOf(schemas, resource) ==
    schemas[ProviderKey(resource.Provider)].ResourceSchemas[resource.Name].Block

RECURSIVE MainFile(_, _, _)
\* the loop of CreateMainTF over the resources
MainFile(file, schemas, rs) ==
    IF rs = <<>> THEN Built(file)
    ELSE IF ~HasSchema(schemas, Head(rs)) THEN MainFile(file, schemas, Tail(rs))
    ELSE LET r == MainResourceBlock(Head(rs), SchemaBlockOf(schemas, Head(rs)))
         IN IF r.panic THEN Panicked ELSE MainFile(file \o r.body, schemas, Tail(rs))

(***************************************************************************)
(* Type Renderer and Dual Code Generator: variables.tf                     *)
(***************************************************************************)
\* the orders in which a range over a Go map may visit the keys of an object type
MapOrders == {"ascending", "descending"}

Reverse(seq) == [i \in 1..Len(seq) |-> seq[Len(seq) + 1 - i]]

RangeOrder(keys, mapOrder) ==
    IF mapOrder = "ascending" THEN SortStrings(keys) ELSE Reverse(SortStrings(keys))

RECURSIVE getAttributeType(_, _)
RECURSIVE ObjectFields(_, _, _)
ObjectFields(keys, attrTypes, mapOrder) ==
    IF keys = <<>> THEN ""
    ELSE "  " \o Head(keys) \o " = " \o getAttributeType(attrTypes[Head(keys)], mapOrder)
         \o "\n" \o ObjectFields(Tail(keys), attrTypes, mapOrder)

getAttributeType(attrType, mapOrder) ==
    CASE attrType.kind = "primitive" -> attrType.name
      [] attrType.kind = "list" -> "list(" \o getAttributeType(attrType.elem, mapOrder) \o ")"
      [] attrType.kind = "set" -> "set(" \o getAttributeType(attrType.elem, mapOrder) \o ")"
      [] attrType.kind = "map" -> "map(" \o getAttributeType(attrType.elem, mapOrder) \o ")"
      [] attrType.kind = "object" ->
            "object({\n"
            \o ObjectFields(RangeOrder(DOMAIN attrType.attrs, mapOrder),
                            attrType.attrs, mapOrder)
            \o "})"
      [] OTHER -> "any"

RECURSIVE ReplaceAll(_, _, _)
\* strings.ReplaceAll for a one-character old
ReplaceAll(s, old, new) ==
    IF s = "" THEN ""
    ELSE (IF Head(s) = old THEN new ELSE Head(s)) \o ReplaceAll(Tail(s), old, new)

\* the comment text built from a description (quotes escaped, newlines to spaces)
SingleLineDescription(description) ==
    ReplaceAll(ReplaceAll(description, "\"", "\\\""), "\n", " ")

RECURSIVE handleAttributesAndNestedBlocksForVariable(_, _, _, _, _, _, _)
RECURSIVE HandleVariableItems(_, _, _, _, _, _, _, _)
\* the loop of handleAttributesAndNestedBlocksForVariable over the sorted items
HandleVariableItems(body, items, attributes, nestedBlocks, indentLevel, isNested, descFlag, mapOrder) ==
    IF items = <<>> THEN Built(body)
    ELSE LET name == Head(items)
             rest == Tail(items)
             indent == Repeat("  ", indentLevel)
         IN IF name \in DOMAIN attributes
            THEN LET attrSchema == attributes[name]
                     attrTypeStr == getAttributeType(attrSchema.AttributeType, mapOrder)
                     comment == IF attrSchema.Description # "" /\ descFlag
                                THEN <<CommentLine(indent \o "// "
                                         \o SingleLineDescription(attrSchema.Description))>>
                                ELSE <<>>
                     wrap == ~attrSchema.Required /\ isNested
                     formattedAttribute ==
                         indent \o name \o " = "
                         \o (IF wrap THEN "optional(" ELSE "") \o attrTypeStr
                         \o (IF wrap THEN ")" ELSE "")
                 IN HandleVariableItems(body \o comment \o <<TokenLine(formattedAttribute)>>,
                                        rest, attributes, nestedBlocks, indentLevel,
                                        isNested, descFlag, mapOrder)
            ELSE LET blockSchema == nestedBlocks[name]
                     known == blockSchema.NestingMode \in {"single", "list", "set"}
                     blockTypeStr == CASE blockSchema.NestingMode = "single" -> "object({"
                                       [] blockSchema.NestingMode = "list" -> "list(object({"
                                       [] blockSchema.NestingMode = "set" -> "set(object({"
                                       [] OTHER -> ""
                     isOptional == blockSchema.MinItems = 0
                     open == TokenLine(indent \o name
                                       \o (IF isOptional THEN " = optional(" ELSE " = ")
                                       \o blockTypeStr)
                     close == TokenLine(indent
                                        \o (IF blockSchema.NestingMode = "single"
                                            THEN "})" ELSE "}))")
                                        \o (IF isOptional THEN ")" ELSE ""))
                 IN IF ~known  \* unknown nesting_mode: skipped after the newline
                    THEN HandleVariableItems(Append(body, Newline), rest, attributes,
                                             nestedBlocks, indentLevel, isNested,
                                             descFlag, mapOrder)
                    ELSE IF IsNil(blockSchema.Block)
                    THEN Panicked  \* blockSchema.Block.Description of a nil Block
                    ELSE LET comment ==
                                 IF blockSchema.Block.Description # "" /\ descFlag
                                 THEN <<CommentLine(indent \o "  // "
                                          \o SingleLineDescription(
                                               blockSchema.Block.Description))>>
                                 ELSE <<>>
                             inner == handleAttributesAndNestedBlocksForVariable(
                                         body \o <<Newline, open>> \o comment,
                                         blockSchema.Block.Attributes,
                                         blockSchema.Block.NestedBlocks,
                                         indentLevel + 1, TRUE, descFlag, mapOrder)
                         IN IF inner.panic THEN Panicked
                            ELSE HandleVariableItems(inner.body \o <<close, Newline>>,
                                                     rest, attributes, nestedBlocks,
                                                     indentLevel, isNested, descFlag,
                                                     mapOrder)

handleAttributesAndNestedBlocksForVariable(variableBody, attributes, nestedBlocks, indentLevel, isNested, descFlag, mapOrder) ==
    HandleVariableItems(variableBody, ItemNames(attributes, nestedBlocks), attributes,
                        nestedBlocks, indentLevel, isNested, descFlag, mapOrder)

\* SetAttributeValue of a cty string: a quoted template
StringVal(s) == "\"" \o ReplaceAll(s, "\"", "\\\"") \o "\""

\* multiple mode: the one list(object({...})) declaration of a resource
MultipleVariable(resource, block, descFlag, mapOrder) ==
    LET fields == handleAttributesAndNestedBlocksForVariable(
                     SetAttributeRaw(<<>>, "type", "list(object({"),
                     block.Attributes, block.NestedBlocks, 1, TRUE, descFlag, mapOrder)
    IN IF fields.panic THEN Panicked
       ELSE Built(<<NewBlock("variable", <<deriveVariableName(resource.Name)>>,
                             SetAttributeRaw(Append(fields.body, TokenLine("}))")),
                                             "default", "null")),
                    Newline>>)

\* single mode: the declaration of one top-level attribute
AttributeVariable(itemName, attrSchema, mapOrder) ==
    LET description == ReplaceAll(attrSchema.Description, "\n", " ")
        b1 == IF description # ""
              THEN SetAttributeRaw(<<>>, "description", StringVal(description))
              ELSE <<>>
        b2 == SetAttributeRaw(b1, "type",
                              getAttributeType(attrSchema.AttributeType, mapOrder))
        b3 == IF attrSchema.Optional THEN SetAttributeRaw(b2, "default", "null") ELSE b2
    IN <<NewBlock("variable", <<itemName>>, b3), Newline>>

\* single mode: the declaration of one top-level nested block
BlockVariable(itemName, block, descFlag, mapOrder) ==
    LET many == block.MaxItems # 1
        fields == handleAttributesAndNestedBlocksForVariable(
                     SetAttributeRaw(<<>>, "type",
                                     IF many THEN "list(object({" ELSE "object({"),
                     block.Block.Attributes, block.Block.NestedBlocks, 1, TRUE,
                     descFlag, mapOrder)
        closed == Append(fields.body, TokenLine(IF many THEN "}))" ELSE "})"))
    IN IF fields.panic THEN Panicked
       ELSE Built(<<NewBlock("variable", <<itemName>>,
                             IF block.MinItems = 0
                             THEN SetAttributeRaw(closed, "default", "null")
                             ELSE closed),
                    Newline>>)

RECURSIVE SingleVariables(_, _, _, _, _)
\* single mode: the loop of CreateVariablesTF over the sorted top-level items
SingleVariables(file, totalItems, block, descFlag, mapOrder) ==
    IF totalItems = <<>> THEN Built(file)
    ELSE LET itemName == Head(totalItems)
             rest == Tail(totalItems)
         IN IF itemName \in DOMAIN block.Attributes
            THEN SingleVariables(
                   file \o AttributeVariable(itemName, block.Attributes[itemName], mapOrder),
                   rest, block, descFlag, mapOrder)
            ELSE IF IsNil(block.NestedBlocks[itemName].Block)
            THEN SingleVariables(file, rest, block, descFlag, mapOrder)  \* skipped
            ELSE LET v == BlockVariable(itemName, block.NestedBlocks[itemName],
                                        descFlag, mapOrder)
                 IN IF v.panic THEN Panicked
                    ELSE SingleVariables(file \o v.body, rest, block, descFlag, mapOrder)

RECURSIVE VariablesFile(_, _, _, _, _)
\* the loop of CreateVariablesTF over the resources
VariablesFile(file, schemas, rs, descFlag, mapOrder) ==
    IF rs = <<>> THEN Built(file)
    ELSE IF ~HasSchema(schemas, Head(rs))
    THEN VariablesFile(file, schemas, Tail(rs), descFlag, mapOrder)
    ELSE LET block == SchemaBlockOf(schemas, Head(rs))
             r == IF Head(rs).Mode = "multiple"
                  THEN MultipleVariable(Head(rs), block, descFlag, mapOrder)
                  ELSE SingleVariables(<<>>,
                                       ItemNames(block.Attributes, block.NestedBlocks),
                                       block, descFlag, mapOrder)
         IN IF r.panic THEN Panicked
            ELSE VariablesFile(file \o r.body, schemas, Tail(rs), descFlag, mapOrder)

(***************************************************************************)
(* The generator operations as steps: from is the step's place in the      *)
(* calling sequence, to the place after it.  A nil dereference ends the    *)
(* process ("panic").                                                      *)
(***************************************************************************)
WorkingDir == "terraform"

LogEntry(level, message) == [level |-> level, message |-> message]

\* filepath.Join(dir, name)
Join(dir, name) == dir \o "/" \o name

\* the errors os.WriteFile returns for a path it cannot write
WriteErrors(filePath) ==
    {"open " \o filePath \o ": permission denied",
     "open " \o filePath \o ": no such file or directory"}

\* an error that names the artifact but not where it was to be written
WriteFailure_NoPath(name, filePath, cause) == "failed to write " \o name \o ": " \o cause

\* fmt.Errorf("failed to write <name> to %s: %w", filePath, err)
WriteFailure(name, filePath, cause) ==
    "failed to write " \o name \o " to " \o filePath \o ": " \o cause

RemoveComputedAttributes(from, to) ==
    /\ pc = from
    /\ cleanedSchema' = RemoveComputedAttributesOf(cleanedSchema)
    /\ pc' = to
    /\ UNCHANGED <<resources, descAsCommentsFlag, mainTF, variablesTF, err, jsonOutput,
                   validationErrors, log, exitReturns, failures,
                   resourcePtrs, providers, schemaJSON, filteredSchema>>

\* writeFile may fail
CreateMainTF(from, to) ==
    /\ pc = from
    /\ IF resources = <<>>
       THEN /\ pc' = to
            /\ err' = ""
            /\ UNCHANGED mainTF
       ELSE LET r == MainFile(<<>>, cleanedSchema, resources)
                file == FileOf(cleanupHCLFile(r.body))
            IN IF r.panic
               THEN /\ pc' = "panic"
                    /\ UNCHANGED <<mainTF, err>>
               ELSE /\ pc' = to
                    /\ \/ /\ mainTF' = file
                          /\ err' = ""
                       \/ /\ \E cause \in WriteErrors(Join(WorkingDir, "main.tf")) :
                                err' = WriteFailure("main.tf", Join(WorkingDir, "main.tf"), cause)
                          /\ UNCHANGED mainTF
    /\ log' = Append(log, LogEntry("info", "Starting to generate main.tf in directory: "
                                           \o WorkingDir))
    /\ UNCHANGED <<resources, cleanedSchema, descAsCommentsFlag, variablesTF, jsonOutput,
                   validationErrors, exitReturns, failures,
                   resourcePtrs, providers, schemaJSON, filteredSchema>>

\* mapOrder: the order a range over an object type's fields takes in this call
CreateVariablesTF(from, to, mapOrder) ==
    /\ pc = from
    /\ IF resources = <<>>
       THEN /\ pc' = to
            /\ err' = ""
            /\ UNCHANGED variablesTF
       ELSE LET r == VariablesFile(<<>>, cleanedSchema, resources, descAsCommentsFlag,
                                   mapOrder)
                file == FileOf(cleanupHCLFile(r.body))
            IN IF r.panic
               THEN /\ pc' = "panic"
                    /\ UNCHANGED <<variablesTF, err>>
               ELSE /\ pc' = to
                    /\ \/ /\ variablesTF' = file
                          /\ err' = ""
                       \/ /\ \E cause \in WriteErrors(Join(WorkingDir, "variables.tf")) :
                                err' = WriteFailure("variables.tf", Join(WorkingDir, "variables.tf"), cause)
                          /\ UNCHANGED variablesTF
    /\ log' = Append(log, LogEntry("info", "Starting to generate variables.tf in directory: "
                                           \o WorkingDir))
    /\ UNCHANGED <<resources, cleanedSchema, descAsCommentsFlag, mainTF, jsonOutput,
                   validationErrors, exitReturns, failures,
                   resourcePtrs, providers, schemaJSON, filteredSchema>>

(***************************************************************************)
(* SpecGen: normalize, then generate both artifacts, for one resource over *)
(* every bounded schema and both cardinality modes                         *)
(***************************************************************************)
NilMap == [nil |-> TRUE]

NoJSON == [wellFormed |-> FALSE, diagnostics |-> <<>>]

SchemaOf(resourceBlocks) ==
    ProviderKey(ProviderAws) :>
        [ResourceSchemas |-> [r \in DOMAIN resourceBlocks |-> [Block |-> resourceBlocks[r]]]]

Resource(name, mode) == [Name |-> name, Mode |-> mode, Provider |-> ProviderAws]

InitGen ==
    /\ pc = "RemoveComputedAttributes"
    /\ \E mode \in {"single", "multiple"} : resources = <<Resource("aws_instance", mode)>>
    /\ \E b \in Blocks(MaxDepth) : cleanedSchema = SchemaOf("aws_instance" :> b)
    /\ descAsCommentsFlag \in BOOLEAN
    /\ mainTF = NoFile
    /\ variablesTF = NoFile
    /\ err = ""
    /\ jsonOutput = NoJSON
    /\ validationErrors = NilMap
    /\ log = <<>>
    /\ exitReturns = FALSE
    /\ failures = {}
    /\ resourcePtrs = <<>>
    /\ providers = EmptyMap
    /\ schemaJSON = NilBlock
    /\ filteredSchema = NilBlock

GenRemoveComputedAttributes == RemoveComputedAttributes("RemoveComputedAttributes", "CreateMainTF")

GenCreateMainTF == CreateMainTF("CreateMainTF", "CreateVariablesTF")

GenCreateVariablesTF ==
    \E mapOrder \in MapOrders : CreateVariablesTF("CreateVariablesTF", "done", mapOrder)

NextGen == GenRemoveComputedAttributes \/ GenCreateMainTF \/ GenCreateVariablesTF

SpecGen == InitGen /\ [][NextGen]_vars

(***************************************************************************)
(* Reading the artifacts back: the names each one emits, in emission order, *)
(* each with the nesting depth it is emitted at (0: the resource's Block)   *)
(***************************************************************************)
Emitted(depth, name) == [depth |-> depth, name |-> name]

\* the content block of a dynamic block
ContentOf(dynamic) ==
    LET i == CHOOSE k \in 1..Len(dynamic.body) :
                 dynamic.body[k].kind = "block" /\ dynamic.body[k].type = "content"
    IN dynamic.body[i].body

RECURSIVE SkeletonNames(_, _)
\* attribute assignments and dynamic blocks of a main.tf body
SkeletonNames(body, depth) ==
    IF body = <<>> THEN <<>>
    ELSE LET it == Head(body)
             here == CASE it.kind = "attribute" -> <<Emitted(depth, it.name)>>
                       [] it.kind = "block" /\ it.type = "dynamic" ->
                            <<Emitted(depth, it.labels[1])>>
                            \o SkeletonNames(ContentOf(it), depth + 1)
                       [] OTHER -> <<>>
         IN here \o SkeletonNames(Tail(body), depth)

BlocksOfType(file, type) ==
    SelectSeq(file, LAMBDA it : it.kind = "block" /\ it.type = type)

\* the names main.tf emits for its only resource (for_each is the meta-argument
\* of multiple mode, not a name of the schema)
MainNames ==
    LET rb == BlocksOfType(mainTF.body, "resource")[1]
    IN SelectSeq(SkeletonNames(rb.body, 0),
                 LAMBDA e : ~(e.depth = 0 /\ e.name = "for_each"
                              /\ resources[1].Mode = "multiple"))

\* the name a declaration line "<indent><name> = <type>" declares
FieldName(text) ==
    LET k == LeadingSpaces(text)
    IN SubSeq(text, k + 1, IndexFrom(text, " = ", k + 1) - 1)

RECURSIVE FieldNames(_, _)
\* the fields a variable's type lines declare; indent level 1 is depth `top`
FieldNames(body, top) ==
    IF body = <<>> THEN <<>>
    ELSE LET it == Head(body)
             here == IF it.kind = "tokens" /\ ~StartsWithBrace(it)
                     THEN <<Emitted(top + (LeadingSpaces(it.text) \div 2) - 1,
                                    FieldName(it.text))>>
                     ELSE <<>>
         IN here \o FieldNames(Tail(body), top)

RECURSIVE DeclaredNames(_, _)
DeclaredNames(variableBlocks, mode) ==
    IF variableBlocks = <<>> THEN <<>>
    ELSE LET v == Head(variableBlocks)
             here == IF mode = "single"
                     THEN <<Emitted(0, v.labels[1])>> \o FieldNames(v.body, 1)
                     ELSE FieldNames(v.body, 0)
         IN here \o DeclaredNames(Tail(variableBlocks), mode)

\* the names variables.tf declares for its only resource
VariableNames == DeclaredNames(BlocksOfType(variablesTF.body, "variable"), resources[1].Mode)

RECURSIVE Lexicographic(_, _)
\* a < b in lexicographic order of the characters
Lexicographic(a, b) ==
    IF b = "" THEN FALSE
    ELSE IF a = "" THEN TRUE
    ELSE IF Head(a) = Head(b) THEN Lexicographic(Tail(a), Tail(b))
    ELSE Ord(Head(a)) < Ord(Head(b))

\* i and j are emitted at the same Block level: same depth, nothing shallower between
Siblings(names, i, j) ==
    /\ i < j
    /\ names[i].depth = names[j].depth
    /\ \A k \in i..j : names[k].depth >= names[i].depth

SiblingsAscend(names) ==
    \A i, j \in 1..Len(names) :
        Siblings(names, i, j) => Lexicographic(names[i].name, names[j].name)

RootBlock == SchemaBlockOf(cleanedSchema, resources[1])

Generated == pc = "done" /\ mainTF.written /\ variablesTF.written

RECURSIVE NoComputedOnly(_)
NoComputedOnly(block) ==
    \/ IsNil(block)
    \/ /\ \A a \in DOMAIN block.Attributes :
             ~(block.Attributes[a].Computed /\ ~block.Attributes[a].Optional
               /\ ~block.Attributes[a].Required)
       /\ \A b \in DOMAIN block.NestedBlocks : NoComputedOnly(block.NestedBlocks[b].Block)

\* the names that are computed-only attributes in the bounded schemas (a name is
\* computed-only in every Block it occurs in, or in none)
ComputedOnlyNames ==
    UNION {{a \in DOMAIN m : m[a].Computed /\ ~m[a].Optional /\ ~m[a].Required} :
             m \in AttributeMaps}

NamesOf(names) == {names[i].name : i \in 1..Len(names)}

\* C1: after RemoveComputedAttributes no Block reachable from a resource root
\* holds a computed-only attribute, and neither main.tf nor variables.tf names
\* one at any nesting depth.
C1_ComputedOnlyExcluded ==
    /\ pc # "RemoveComputedAttributes" => NoComputedOnly(RootBlock)
    /\ mainTF.written => NamesOf(MainNames) \cap ComputedOnlyNames = {}
    /\ variablesTF.written => NamesOf(VariableNames) \cap ComputedOnlyNames = {}

\* both artifacts written from a schema that nests two levels deep and whose
\* innermost Block kept ami and tags (the attribute map that also carried the
\* computed-only id)
C1_Witness ==
    /\ Generated
    /\ \E i \in 1..Len(MainNames) : MainNames[i] = Emitted(2, "tags")
    /\ \E i \in 1..Len(VariableNames) : VariableNames[i] = Emitted(2, "tags")
    /\ \E i \in 1..Len(MainNames) : MainNames[i] = Emitted(0, "name")

\* C2: at every Block level the names emitted into main.tf ascend in
\* lexicographic order, and the names declared in variables.tf for that level
\* ascend in the same order.
C2_SortedEmission ==
    /\ mainTF.written => SiblingsAscend(MainNames)
    /\ variablesTF.written => SiblingsAscend(VariableNames)

\* a nested level that emits attribute, block, attribute (ami < ebs < tags) in
\* both artifacts
C2_Witness ==
    /\ Generated
    /\ \E i, j, k \in 1..Len(MainNames) :
          /\ Siblings(MainNames, i, j) /\ Siblings(MainNames, j, k)
          /\ <<MainNames[i], MainNames[j], MainNames[k]>>
               = <<Emitted(1, "ami"), Emitted(1, "ebs"), Emitted(1, "tags")>>
    /\ \E i, j, k \in 1..Len(VariableNames) :
          /\ Siblings(VariableNames, i, j) /\ Siblings(VariableNames, j, k)
          /\ <<VariableNames[i], VariableNames[j], VariableNames[k]>>
               = <<Emitted(1, "ami"), Emitted(1, "ebs"), Emitted(1, "tags")>>

\* C3: the artifacts stay in lock-step: at each Block level the names main.tf
\* emits are the names variables.tf declares, none emitted in one and skipped
\* in the other.
C3_LockStep == Generated => MainNames = VariableNames

AttributesNamed(body, name) ==
    SelectSeq(body, LAMBDA it : it.kind = "attribute" /\ it.name = name)

TokenTexts(body) ==
    {body[i].text : i \in {k \in 1..Len(body) : body[k].kind = "tokens"}}

\* C4: single mode emits a = var.a and a declaration of its own for every
\* retained top-level attribute a; multiple mode emits one declaration, named
\* by the derived plural and typed list(object({...})) with a field per
\* attribute, a for_each over coalesce(var.P, []) keyed by name, and
\* a = each.value.a.
C4_ShapeDuality ==
    LET mode == resources[1].Mode
        top == DOMAIN RootBlock.Attributes
        resourceBody == BlocksOfType(mainTF.body, "resource")[1].body
        declarations == BlocksOfType(variablesTF.body, "variable")
    IN /\ (mainTF.written /\ mode = "single") =>
            /\ AttributesNamed(resourceBody, "for_each") = <<>>
            /\ \A a \in top :
                  AttributesNamed(resourceBody, a) = <<Attribute(a, "var." \o a)>>
       /\ (variablesTF.written /\ mode = "single") =>
            \A a \in top :
               Len(SelectSeq(declarations, LAMBDA v : v.labels = <<a>>)) = 1
       /\ (mainTF.written /\ mode = "multiple") =>
            /\ AttributesNamed(resourceBody, "for_each")
                 = <<Attribute("for_each",
                               "{ for i in coalesce(var.instances, []) : i.name => i }")>>
            /\ \A a \in top :
                  AttributesNamed(resourceBody, a) = <<Attribute(a, "each.value." \o a)>>
       /\ (variablesTF.written /\ mode = "multiple") =>
            /\ Len(declarations) = 1
            /\ declarations[1].labels = <<"instances">>
            /\ AttributesNamed(declarations[1].body, "type")
                 = <<Attribute("type", "list(object({")>>
            /\ "}))" \in TokenTexts(declarations[1].body)
            /\ \A a \in top :
                  \E i \in 1..Len(VariableNames) : VariableNames[i] = Emitted(0, a)

\* multiple mode, both artifacts written for a resource with the top-level
\* attributes ami and tags and a nested block
C4_Witness ==
    /\ Generated
    /\ resources[1].Mode = "multiple"
    /\ DOMAIN RootBlock.Attributes = {"ami", "tags"}
    /\ DOMAIN RootBlock.NestedBlocks # {}
    /\ Len(AttributesNamed(BlocksOfType(mainTF.body, "resource")[1].body, "for_each")) = 1

(***************************************************************************)
(* Repair: RemoveInvalidAttributesFromSchema                               *)
(***************************************************************************)
\* a non-nil map[string][]string
MapOf(entries) == [nil |-> FALSE, entries |-> entries]

Entries(m) == IF m.nil THEN EmptyMap ELSE m.entries

\* the rejection keys a range over validationErrors can stop at for a resource
MatchingKeys(entries, resourceKey) ==
    {k \in DOMAIN entries : HasPrefix(k, resourceKey)}

RECURSIVE RemoveInvalid(_, _, _)
\* the loop over invalidAttributes: the attributes left, and what it logs
RemoveInvalid(attributes, invalidAttributes, resourceKey) ==
    IF invalidAttributes = <<>> THEN [attributes |-> attributes, log |-> <<>>]
    ELSE LET attrName == Head(invalidAttributes)
             exists == attrName \in DOMAIN attributes
             rest == RemoveInvalid(IF exists THEN DeleteKey(attributes, attrName)
                                   ELSE attributes,
                                   Tail(invalidAttributes), resourceKey)
             entry == IF exists
                      THEN LogEntry("debug", "Removed attribute: " \o attrName
                                             \o " from resource: " \o resourceKey)
                      ELSE LogEntry("warn", "Attribute " \o attrName
                                            \o " not found in resource " \o resourceKey
                                            \o ", cannot remove")
         IN [attributes |-> rest.attributes, log |-> <<entry>> \o rest.log]

\* one resource: first is the matching key the range stops at ("" when no key
\* has the resource's name as a prefix)
RemoveInvalidFromResource(resourceSchema, entries, resourceKey, first) ==
    LET invalidAttributes == IF first = "" THEN <<>> ELSE entries[first]
    IN IF invalidAttributes = <<>>
       THEN [schema |-> resourceSchema, log |-> <<>>]
       ELSE LET r == RemoveInvalid(resourceSchema.Block.Attributes, invalidAttributes,
                                   resourceKey)
            IN [schema |-> [resourceSchema EXCEPT !.Block.Attributes = r.attributes],
                log |-> r.log]

RECURSIVE RemovalLog(_, _, _, _)
RemovalLog(resourceKeys, resourceSchemas, entries, first) ==
    IF resourceKeys = <<>> THEN <<>>
    ELSE LET k == Head(resourceKeys)
         IN RemoveInvalidFromResource(resourceSchemas[k], entries, k, first[k]).log
            \o RemovalLog(Tail(resourceKeys), resourceSchemas, entries, first)

\* the keys a range may stop at, one per resource
FirstMatches(resourceKeys, entries) ==
    { f \in [resourceKeys -> (DOMAIN entries) \cup {""}] :
        \A r \in resourceKeys :
           IF MatchingKeys(entries, r) = {} THEN f[r] = ""
           ELSE f[r] \in MatchingKeys(entries, r) }

\* mapOrder: the order the range over the resources takes
RemoveInvalidAttributesFromSchema(from, to) ==
    /\ pc = from
    /\ LET p == ProviderKey(ProviderAws)
           resourceSchemas == cleanedSchema[p].ResourceSchemas
           entries == Entries(validationErrors)
       IN \E first \in FirstMatches(DOMAIN resourceSchemas, entries),
             mapOrder \in MapOrders :
             /\ cleanedSchema' =
                   [cleanedSchema EXCEPT ![p].ResourceSchemas =
                      [r \in DOMAIN resourceSchemas |->
                         RemoveInvalidFromResource(resourceSchemas[r], entries, r,
                                                   first[r]).schema]]
             /\ log' = log
                       \o <<LogEntry("info", "Starting to remove invalid attributes from the schema...")>>
                       \o RemovalLog(RangeOrder(DOMAIN resourceSchemas, mapOrder),
                                     resourceSchemas, entries, first)
                       \o <<LogEntry("info", "Completed removing invalid attributes from the schema.")>>
    /\ pc' = to
    /\ UNCHANGED <<resources, descAsCommentsFlag, mainTF, variablesTF, err, jsonOutput,
                   validationErrors, exitReturns, failures,
                   resourcePtrs, providers, schemaJSON, filteredSchema>>

(***************************************************************************)
(* SpecRepair: one call of RemoveInvalidAttributesFromSchema on two        *)
(* resources, the name of one a prefix of the other's, under every bounded *)
(* rejection map                                                           *)
(***************************************************************************)
\* the longest rejection list
MaxRejections == 2

RepairAttribute == Attr(TString, FALSE, TRUE, FALSE, "")

\* root Blocks with top-level attributes among a and b, some with the nested
\* block ebs that has an attribute a of its own
RepairBlocks ==
    LET inner == [Attributes |-> ("a" :> RepairAttribute), NestedBlocks |-> EmptyMap,
                  Description |-> ""]
        nested == BlockName :> [NestingMode |-> "list", MinItems |-> 0, MaxItems |-> 0,
                                Block |-> inner]
    IN {[Attributes |-> [n \in names |-> RepairAttribute], NestedBlocks |-> nb,
         Description |-> ""] :
          names \in {{"a"}, {"b"}, {"a", "b"}}, nb \in {EmptyMap, nested}}

\* rejected names: a and b may be in a schema, c is in none
RejectedNames == {"a", "b", "c"}

RejectionLists ==
    UNION {[1..n -> RejectedNames] : n \in 0..MaxRejections}

RejectionKeys == {"aws_iam_role.this", "aws_iam_role_policy.this"}

RejectionMaps ==
    UNION {[keys -> RejectionLists] : keys \in SUBSET RejectionKeys}

InitRepair ==
    /\ pc = "RemoveInvalidAttributesFromSchema"
    /\ resources = <<Resource("aws_iam_role", "single"),
                     Resource("aws_iam_role_policy", "single")>>
    /\ \E role \in RepairBlocks, policy \in {b \in RepairBlocks : "a" \in DOMAIN b.Attributes} :
          cleanedSchema = SchemaOf(("aws_iam_role" :> role)
                                   @@ ("aws_iam_role_policy" :> policy))
    /\ \E m \in RejectionMaps : validationErrors = MapOf(m)
    /\ descAsCommentsFlag = FALSE
    /\ mainTF = NoFile
    /\ variablesTF = NoFile
    /\ err = ""
    /\ jsonOutput = NoJSON
    /\ log = <<>>
    /\ exitReturns = FALSE
    /\ failures = {}
    /\ resourcePtrs = <<>>
    /\ providers = EmptyMap
    /\ schemaJSON = NilBlock
    /\ filteredSchema = NilBlock

NextRepair == RemoveInvalidAttributesFromSchema("RemoveInvalidAttributesFromSchema", "done")

SpecRepair == InitRepair /\ [][NextRepair]_vars

ResourceSchemasOf(schemas) == schemas[ProviderKey(ProviderAws)].ResourceSchemas

ListedNames(list) == {list[i] : i \in 1..Len(list)}

Repaired ==
    \E i \in 1..Len(log) :
       log[i].message = "Completed removing invalid attributes from the schema."

\* C5: after RemoveInvalidAttributesFromSchema, for every resource key R and
\* every rejection key K that has R as a prefix, none of the names listed under
\* K is left among R's top-level attributes.
C5_RejectedNamesRemoved ==
    Repaired =>
       \A r \in DOMAIN ResourceSchemasOf(cleanedSchema) :
          \A k \in MatchingKeys(Entries(validationErrors), r) :
             ListedNames(Entries(validationErrors)[k])
                \cap DOMAIN ResourceSchemasOf(cleanedSchema)[r].Block.Attributes = {}

\* a rejection list names an attribute its resource does not have, or names
\* one twice
StaleOrDuplicate(entries, resourceSchemas) ==
    \E k \in DOMAIN entries :
       \/ \E r \in DOMAIN resourceSchemas :
             /\ HasPrefix(k, r)
             /\ ~(ListedNames(entries[k]) \subseteq DOMAIN resourceSchemas[r].Block.Attributes)
       \/ \E i, j \in 1..Len(entries[k]) : i < j /\ entries[k][i] = entries[k][j]

\* C6: when a rejection list holds a name its resource lacks, or a repeated
\* name, the call completes without error, removes the listed attributes that
\* are present, and leaves every other attribute, and every resource no
\* rejection key matches, unchanged.
C6_StaleAndDuplicateTolerated ==
    [][(/\ pc = "RemoveInvalidAttributesFromSchema"
        /\ StaleOrDuplicate(Entries(validationErrors), ResourceSchemasOf(cleanedSchema)))
       => /\ pc' # "panic"
          /\ err' = err
          /\ DOMAIN ResourceSchemasOf(cleanedSchema') = DOMAIN ResourceSchemasOf(cleanedSchema)
          /\ \A r \in DOMAIN ResourceSchemasOf(cleanedSchema) :
                LET before == ResourceSchemasOf(cleanedSchema)[r].Block
                    after == ResourceSchemasOf(cleanedSchema')[r].Block
                    listed == UNION {ListedNames(Entries(validationErrors)[k]) :
                                       k \in MatchingKeys(Entries(validationErrors), r)}
                IN /\ after.Attributes =
                         [a \in (DOMAIN before.Attributes) \ listed |-> before.Attributes[a]]
                   /\ after.NestedBlocks = before.NestedBlocks]_vars

(***************************************************************************)
(* Diagnostic Extractor: ParseValidationErrorsFromJSON                     *)
(***************************************************************************)
\* regexp's \s, and the ASCII white space strings.TrimSpace cuts
Whitespace == {" ", "\t", "\n", "\r"}

CharsOf(s) == {Char(s, i) : i \in 1..Len(s)}

\* regexp's \w
WordChars == CharsOf("0123456789ABCDEFGHIJKLMNOPQRSTUVWXYZ_abcdefghijklmnopqrstuvwxyz")

\* the first position from i on whose character is outside set; Len(s) + 1
\* when there is none
SkipWhile(s, i, set) ==
    LET J == {j \in i..Len(s) : Char(s, j) \notin set}
    IN IF J = {} THEN Len(s) + 1 ELSE Min(J)

\* FindStringSubmatch: nil, or the whole match followed by the groups
NoMatch == [matched |-> FALSE, submatches |-> <<>>]

Match(submatches) == [matched |-> TRUE, submatches |-> submatches]

\* resource\s+"([^"]+)"\s+"([^"]+)" matched at position i
MatchResourceAt(s, i) ==
    IF ~HasPrefixAt(s, i, "resource") THEN NoMatch
    ELSE LET a == i + Len("resource")
             b == SkipWhile(s, a, Whitespace)
         IN IF b = a \/ ~HasPrefixAt(s, b, "\"") THEN NoMatch
            ELSE LET c == IndexFrom(s, "\"", b + 1)
                 IN IF c <= b + 1 THEN NoMatch
                    ELSE LET d == SkipWhile(s, c + 1, Whitespace)
                         IN IF d = c + 1 \/ ~HasPrefixAt(s, d, "\"") THEN NoMatch
                            ELSE LET e == IndexFrom(s, "\"", d + 1)
                                 IN IF e <= d + 1 THEN NoMatch
                                    ELSE Match(<<SubSeq(s, i, e), SubSeq(s, b + 1, c - 1),
                                                 SubSeq(s, d + 1, e - 1)>>)

DetailPrefix == "Can't configure a value for \""

\* Can't configure a value for "(.*?)" matched at position i
MatchCantConfigureAt(s, i) ==
    IF ~HasPrefixAt(s, i, DetailPrefix) THEN NoMatch
    ELSE LET a == i + Len(DetailPrefix)
             q == IndexFrom(s, "\"", a)
         IN IF q = 0 \/ Contains(SubSeq(s, a, q - 1), "\n") THEN NoMatch
            ELSE Match(<<SubSeq(s, i, q), SubSeq(s, a, q - 1)>>)

SummarySuffix == "\": this field cannot be set"

\* "(.*?)": this field cannot be set matched at position i
MatchCannotBeSetAt(s, i) ==
    IF ~HasPrefixAt(s, i, "\"") THEN NoMatch
    ELSE LET j == IndexFrom(s, SummarySuffix, i + 1)
         IN IF j = 0 \/ Contains(SubSeq(s, i + 1, j - 1), "\n") THEN NoMatch
            ELSE Match(<<SubSeq(s, i, j + Len(SummarySuffix) - 1), SubSeq(s, i + 1, j - 1)>>)

UnknownKeyPrefix == "invalid or unknown key: "

\* invalid or unknown key: (\w+) matched at position i
MatchUnknownKeyAt(s, i) ==
    IF ~HasPrefixAt(s, i, UnknownKeyPrefix) THEN NoMatch
    ELSE LET a == i + Len(UnknownKeyPrefix)
             b == SkipWhile(s, a, WordChars)
         IN IF b = a THEN NoMatch
            ELSE Match(<<SubSeq(s, i, b - 1), SubSeq(s, a, b - 1)>>)

\* the compiled pattern matched at position i
MatchAt(pattern, s, i) ==
    CASE pattern = "resource" -> MatchResourceAt(s, i)
      [] pattern = "cantConfigure" -> MatchCantConfigureAt(s, i)
      [] pattern = "cannotBeSet" -> MatchCannotBeSetAt(s, i)
      [] pattern = "unknownKey" -> MatchUnknownKeyAt(s, i)

\* the leftmost match
FindStringSubmatch(pattern, s) ==
    LET I == {i \in 1..Len(s) : MatchAt(pattern, s, i).matched}
    IN IF I = {} THEN NoMatch ELSE MatchAt(pattern, s, Min(I))

\* strings.TrimSpace
TrimSpace(s) ==
    LET a == SkipWhile(s, 1, Whitespace)
    IN IF a > Len(s) THEN ""
       ELSE SubSeq(s, a, CHOOSE b \in a..Len(s) :
                            /\ Char(s, b) \notin Whitespace
                            /\ \A k \in (b + 1)..Len(s) : Char(s, k) \in Whitespace)

\* strings.Split(s, sep)[0]
SplitFirst(s, sep) ==
    LET i == IndexFrom(s, sep, 1)
    IN IF i = 0 THEN s ELSE SubSeq(s, 1, i - 1)

Diagnostic(severity, address, summary, detail, context, code) ==
    [Severity |-> severity, Address |-> address, Summary |-> summary, Detail |-> detail,
     Snippet |-> [Context |-> context, Code |-> code]]

\* a resolution that files a diagnostic without address under the empty key
ResolveAddress_NoSkip(diagnostic) ==
    IF diagnostic.Address = "" /\ diagnostic.Snippet.Context # ""
    THEN LET Extracted(matches) ==
                 IF matches.matched /\ Len(matches.submatches) = 3
                 THEN [skip |-> FALSE,
                       address |-> matches.submatches[2] \o "." \o matches.submatches[3]]
                 ELSE [skip |-> FALSE, address |-> ""]
         IN Extracted(FindStringSubmatch("resource", diagnostic.Snippet.Context))
    ELSE [skip |-> FALSE, address |-> diagnostic.Address]

\* the address a diagnostic is filed under; skip when it has none
ResolveAddress(diagnostic) ==
    IF diagnostic.Address = "" /\ diagnostic.Snippet.Context # ""
    THEN LET Extracted(matches) ==
                 IF matches.matched /\ Len(matches.submatches) = 3
                 THEN [skip |-> FALSE,
                       address |-> matches.submatches[2] \o "." \o matches.submatches[3]]
                 ELSE [skip |-> TRUE, address |-> ""]
         IN Extracted(FindStringSubmatch("resource", diagnostic.Snippet.Context))
    ELSE IF diagnostic.Address = "" THEN [skip |-> TRUE, address |-> ""]
    ELSE [skip |-> FALSE, address |-> diagnostic.Address]

Appended(attribute) == [append |-> TRUE, attribute |-> attribute]

NothingAppended == [append |-> FALSE, attribute |-> ""]

\* the fallback on snippet.code
ExtractFromCode(snippetCode) ==
    LET code == TrimSpace(snippetCode)
    IN IF code # "" /\ Contains(code, "=") /\ TrimSpace(SplitFirst(code, "=")) # ""
       THEN Appended(TrimSpace(SplitFirst(code, "=")))
       ELSE NothingAppended

ExtractFromSummary(diagnostic) ==
    LET Chain(cannotBeSet, unknownKey) ==
            IF diagnostic.Summary # "" /\ cannotBeSet.matched
            THEN Appended(cannotBeSet.submatches[2])
            ELSE IF diagnostic.Summary # "" /\ unknownKey.matched
            THEN Appended(unknownKey.submatches[2])
            ELSE ExtractFromCode(diagnostic.Snippet.Code)
    IN Chain(FindStringSubmatch("cannotBeSet", diagnostic.Summary),
             FindStringSubmatch("unknownKey", diagnostic.Summary))

\* a chain that never consults detail
ExtractAttribute_WithoutDetail(diagnostic) == ExtractFromSummary(diagnostic)

\* what one diagnostic with an address appends
ExtractAttribute(diagnostic) ==
    LET Chain(matches) ==
            IF diagnostic.Detail # "" /\ matches.matched
            THEN Appended(matches.submatches[2])
            ELSE ExtractFromSummary(diagnostic)
    IN Chain(FindStringSubmatch("cantConfigure", diagnostic.Detail))

\* an assignment in place of the append
AppendKey_Overwrite(invalidKeys, address, attribute) ==
    [a \in (DOMAIN invalidKeys) \cup {address} |->
       IF a = address THEN <<attribute>> ELSE invalidKeys[a]]

\* invalidKeys[address] = append(invalidKeys[address], attribute)
AppendKey(invalidKeys, address, attribute) ==
    IF address \in DOMAIN invalidKeys
    THEN [invalidKeys EXCEPT ![address] = Append(@, attribute)]
    ELSE invalidKeys @@ (address :> <<attribute>>)

RECURSIVE ProcessDiagnostics_AnySeverity(_, _)
\* a loop that processes the diagnostics of every severity
ProcessDiagnostics_AnySeverity(diagnostics, invalidKeys) ==
    IF diagnostics = <<>> THEN invalidKeys
    ELSE LET Iteration(diagnostic, resolved, extracted) ==
                 IF resolved.skip \/ ~extracted.append
                 THEN invalidKeys
                 ELSE AppendKey(invalidKeys, resolved.address, extracted.attribute)
         IN ProcessDiagnostics_AnySeverity(Tail(diagnostics),
                                           Iteration(Head(diagnostics),
                                                     ResolveAddress(Head(diagnostics)),
                                                     ExtractAttribute(Head(diagnostics))))

RECURSIVE ProcessDiagnostics(_, _)
\* the loop over parsedOutput.Diagnostics
ProcessDiagnostics(diagnostics, invalidKeys) ==
    IF diagnostics = <<>> THEN invalidKeys
    ELSE LET Iteration(diagnostic, resolved, extracted) ==
                 IF diagnostic.Severity # "error" \/ resolved.skip \/ ~extracted.append
                 THEN invalidKeys
                 ELSE AppendKey(invalidKeys, resolved.address, extracted.attribute)
         IN ProcessDiagnostics(Tail(diagnostics),
                               Iteration(Head(diagnostics),
                                         ResolveAddress(Head(diagnostics)),
                                         ExtractAttribute(Head(diagnostics))))

\* json.Unmarshal's error on input it cannot decode
UnmarshalError == "unexpected end of JSON input"

Returned(map, error) == [map |-> map, err |-> error]

\* a parser that returns what it has, empty and non-nil, along with the error
ParseValidationErrorsFromJSONOf_Partial(json) ==
    Returned(MapOf(ProcessDiagnostics(json.diagnostics, EmptyMap)),
             IF json.wellFormed THEN ""
             ELSE "failed to parse JSON output from terraform validate: " \o UnmarshalError)

\* jsonOutput as json.Unmarshal reads it: undecodable, or the diagnostics decoded
ParseValidationErrorsFromJSONOf(json) ==
    IF ~json.wellFormed
    THEN Returned(NilMap, "failed to parse JSON output from terraform validate: "
                          \o UnmarshalError)
    ELSE Returned(MapOf(ProcessDiagnostics(json.diagnostics, EmptyMap)), "")

ParseValidationErrorsFromJSON(from, to) ==
    /\ pc = from
    /\ \E r \in {ParseValidationErrorsFromJSONOf(jsonOutput)} :
          /\ validationErrors' = r.map
          /\ err' = r.err
    /\ pc' = to
    /\ UNCHANGED <<resources, cleanedSchema, descAsCommentsFlag, mainTF, variablesTF,
                   jsonOutput, log, exitReturns, failures,
                   resourcePtrs, providers, schemaJSON, filteredSchema>>

\* len of a map[string][]string
MapLen(m) == Cardinality(DOMAIN Entries(m))

\* RunTerraformValidate's handling of what the parser returned
ValidateResult(parsed) ==
    IF parsed.err # ""
    THEN Returned(NilMap, "failed to parse validation errors from terraform validate output: "
                          \o parsed.err)
    ELSE Returned(parsed.map, "")

(***************************************************************************)
(* SpecParse: one call of ParseValidationErrorsFromJSON on undecodable     *)
(* output and on every sequence of at most MaxDiags bounded diagnostics    *)
(***************************************************************************)
\* the most diagnostics in one validator output
MaxDiags == 3

CantConfigureUserData == "Can't configure a value for \"user_data\""

KeyNameCannotBeSet == "\"key_name\": this field cannot be set"

ResourceContext == "resource \"aws_instance\" \"example\""

\* the diagnostics of the parser's tests, and diagnostics in which several
\* steps of the chain apply, none applies, or the address cannot be resolved
Diagnostics ==
    { Diagnostic("error", "aws_instance.example", KeyNameCannotBeSet, "", "", ""),
      Diagnostic("error", "", "", CantConfigureUserData, ResourceContext,
                 "user_data = <<EOF\n# User data script\nEOF"),
      Diagnostic("error", "azurerm_kubernetes_cluster.example", "Invalid or unknown key", "",
                 "resource \"azurerm_kubernetes_cluster\" \"example\"",
                 "  id       = \"something\""),
      Diagnostic("error", "panos_security_policy.example", "invalid or unknown key: id", "",
                 "resource \"panos_security_policy\" \"example\" {", ""),
      Diagnostic("error", "", "Invalid attribute", "", "", ""),
      Diagnostic("error", "aws_instance.example", "", "", "", "invalid_attribute = \"value\""),
      Diagnostic("error", "aws_instance.example", KeyNameCannotBeSet, CantConfigureUserData,
                 "", "ami = 1"),
      Diagnostic("error", "aws_instance.example",
                 KeyNameCannotBeSet \o "; invalid or unknown key: id",
                 "Unsupported argument", "", "ami = 1"),
      Diagnostic("error", "aws_instance.example", "invalid or unknown key: id", "", "",
                 "ami = 1"),
      Diagnostic("error", "aws_instance.example", "Unsupported argument", "", "", " = 1"),
      Diagnostic("error", "", "", CantConfigureUserData, "locals {", "ami = 1"),
      Diagnostic("warning", "aws_instance.example", KeyNameCannotBeSet, CantConfigureUserData,
                 "", "ami = 1") }

DiagnosticLists == UNION {[1..n -> Diagnostics] : n \in 0..MaxDiags}

JSONOutputs ==
    {NoJSON} \cup {[wellFormed |-> TRUE, diagnostics |-> d] : d \in DiagnosticLists}

InitParse ==
    /\ pc = "ParseValidationErrorsFromJSON"
    /\ jsonOutput \in JSONOutputs
    /\ resources = <<>>
    /\ cleanedSchema = EmptyMap
    /\ descAsCommentsFlag = FALSE
    /\ mainTF = NoFile
    /\ variablesTF = NoFile
    /\ err = ""
    /\ validationErrors = NilMap
    /\ log = <<>>
    /\ exitReturns = FALSE
    /\ failures = {}
    /\ resourcePtrs = <<>>
    /\ providers = EmptyMap
    /\ schemaJSON = NilBlock
    /\ filteredSchema = NilBlock

NextParse == ParseValidationErrorsFromJSON("ParseValidationErrorsFromJSON", "done")

SpecParse == InitParse /\ [][NextParse]_vars

(***************************************************************************)
(* The validator and formatter steps                                       *)
(***************************************************************************)
\* json.Marshal of a *tfjson.ValidateOutput as the parser decodes it again: a
\* nil pointer is encoded as null, which decodes to no diagnostics
Marshal(validateOutput) ==
    [wellFormed |-> TRUE,
     diagnostics |-> IF IsNil(validateOutput) THEN <<>> ELSE validateOutput.Diagnostics]

\* what RunTerraformValidate returns for one outcome of tf.Validate
RunTerraformValidateOf(validateOutput) ==
    ValidateResult(ParseValidationErrorsFromJSONOf(Marshal(validateOutput)))

ValidateLog(validateErr, returned) ==
    <<LogEntry("info", "Running terraform validate in directory: " \o WorkingDir)>>
    \o (IF validateErr # ""
        THEN <<LogEntry("warn", "Terraform validate command failed: " \o validateErr)>>
        ELSE <<>>)
    \o (IF returned.err # ""
        THEN <<LogEntry("error", "Failed to parse validation errors: " \o returned.err)>>
        ELSE IF MapLen(returned.map) > 0
        THEN <<LogEntry("warn", "Terraform validate completed with "
                                \o ToString(MapLen(returned.map)) \o " errors.")>>
        ELSE <<LogEntry("info", "Terraform validate completed successfully with no errors.")>>)

\* a rejection of attribute name of aws_iam_role.this as terraform validate words it
Rejection(name) ==
    Diagnostic("error", "", "Value for unconfigurable attribute",
               "Can't configure a value for \"" \o name
               \o "\": its value will be decided automatically based on the result of applying this configuration.",
               "resource \"aws_iam_role\" \"this\"", name \o " = var." \o name)

\* the outcomes of tf.Validate: the command fails, or reports these diagnostics
ValidateOutcomes ==
    {[output |-> NilBlock, err |-> "exit status 1"]}
    \cup {[output |-> [Diagnostics |-> d], err |-> ""] :
            d \in {<<>>,
                   <<Rejection("a")>>,
                   <<Rejection("a"), Rejection("zone")>>,
                   <<Diagnostic("warning", "", "Deprecated attribute", "", "", "")>>,
                   <<Diagnostic("error", "", "Missing required argument",
                                "The argument \"assume_role_policy\" is required, but no definition was found.",
                                "resource \"aws_iam_role\" \"this\" {", "")>>}}

RunTerraformValidate(from, to) ==
    /\ pc = from
    /\ \E outcome \in ValidateOutcomes :
          \E returned \in {RunTerraformValidateOf(outcome.output)} :
             /\ jsonOutput' = Marshal(outcome.output)
             /\ validationErrors' = returned.map
             /\ err' = returned.err
             /\ log' = log \o ValidateLog(outcome.err, returned)
    /\ pc' = to
    /\ UNCHANGED <<resources, cleanedSchema, descAsCommentsFlag, mainTF, variablesTF,
                   exitReturns, failures,
                   resourcePtrs, providers, schemaJSON, filteredSchema>>

Formatted(file) == IF file.written THEN [file EXCEPT !.formatted = TRUE] ELSE file

\* fmtFunc may fail
RunTerraformFmt(from, to) ==
    /\ pc = from
    /\ \/ /\ err' = ""
          /\ mainTF' = Formatted(mainTF)
          /\ variablesTF' = Formatted(variablesTF)
          /\ log' = Append(log, LogEntry("info", "Terraform fmt completed successfully."))
       \/ /\ err' = "failed to run terraform fmt: exit status 1"
          /\ log' = Append(log, LogEntry("error", "Failed to run terraform fmt: exit status 1"))
          /\ UNCHANGED <<mainTF, variablesTF>>
    /\ pc' = to
    /\ UNCHANGED <<resources, cleanedSchema, descAsCommentsFlag, jsonOutput,
                   validationErrors, exitReturns, failures,
                   resourcePtrs, providers, schemaJSON, filteredSchema>>

(***************************************************************************)
(* Run, from step 6 on: pc is the place in Run, "X" the call of X and      *)
(* "X.returned" the place behind it                                        *)
(***************************************************************************)
\* Run between two calls: when errorMessage is given, if err != nil { log;
\* exitFunc(1) }; then the entries Run logs on its way to the next call
RunBetween(from, to, errorMessage, entries) ==
    /\ pc = from
    /\ LET failed == errorMessage # "" /\ err # ""
           reported == IF failed THEN <<LogEntry("error", errorMessage \o err)>> ELSE <<>>
       IN /\ failures' = IF failed THEN failures \cup {from} ELSE failures
          /\ IF failed /\ ~exitReturns
             THEN /\ pc' = "exited"
                  /\ log' = log \o reported
             ELSE /\ pc' = to
                  /\ log' = log \o reported
                            \o [i \in 1..Len(entries) |-> LogEntry("info", entries[i])]
    /\ UNCHANGED <<resources, cleanedSchema, descAsCommentsFlag, mainTF, variablesTF, err,
                   jsonOutput, validationErrors, exitReturns,
                   resourcePtrs, providers, schemaJSON, filteredSchema>>

RunningValidate == "Running terraform validate..."

\* a step 10 that repairs and regenerates whatever the first validation returned
RunStep10_Unconditional ==
    /\ pc = "RunTerraformValidate.returned"
    /\ pc' = "RemoveInvalidAttributesFromSchema"
    /\ log' = Append(log, LogEntry("info", "Removing invalid attributes from the cleaned schema..."))
    /\ UNCHANGED <<resources, cleanedSchema, descAsCommentsFlag, mainTF, variablesTF, err,
                   jsonOutput, validationErrors, exitReturns, failures,
                   resourcePtrs, providers, schemaJSON, filteredSchema>>

\* step 10: repair and regenerate only when the first validation rejected something
RunStep10 ==
    /\ pc = "RunTerraformValidate.returned"
    /\ LET failed == err # ""
           reported == IF failed
                       THEN <<LogEntry("error", "Error running terraform validate: " \o err)>>
                       ELSE <<>>
       IN /\ failures' = IF failed THEN failures \cup {pc} ELSE failures
          /\ IF failed /\ ~exitReturns
             THEN /\ pc' = "exited"
                  /\ log' = log \o reported
             ELSE IF MapLen(validationErrors) > 0
             THEN /\ pc' = "RemoveInvalidAttributesFromSchema"
                  /\ log' = log \o reported
                            \o <<LogEntry("info", "Removing invalid attributes from the cleaned schema...")>>
             ELSE /\ pc' = "FinalValidate"
                  /\ log' = log \o reported
                            \o <<LogEntry("info", "No invalid attributes found, no need to modify the schema."),
                                 LogEntry("info", RunningValidate)>>
    /\ UNCHANGED <<resources, cleanedSchema, descAsCommentsFlag, mainTF, variablesTF, err,
                   jsonOutput, validationErrors, exitReturns,
                   resourcePtrs, providers, schemaJSON, filteredSchema>>

RECURSIVE Issues(_)
Issues(errors) ==
    IF errors = <<>> THEN <<>>
    ELSE <<LogEntry("info", "  - " \o Head(errors))>> \o Issues(Tail(errors))

RECURSIVE IssueReport(_, _)
IssueReport(files, entries) ==
    IF files = <<>> THEN <<>>
    ELSE <<LogEntry("info", "File: " \o Head(files))>> \o Issues(entries[Head(files)])
         \o IssueReport(Tail(files), entries)

\* step 11, behind the final validation: its result is logged, nothing else
RunReport ==
    /\ pc = "FinalValidate.returned"
    /\ LET failed == err # ""
           reported == IF failed
                       THEN <<LogEntry("error", "Error running terraform validate: " \o err)>>
                       ELSE <<>>
       IN /\ failures' = IF failed THEN failures \cup {pc} ELSE failures
          /\ IF failed /\ ~exitReturns
             THEN /\ pc' = "exited"
                  /\ log' = log \o reported
             ELSE /\ pc' = "RunTerraformFmt"
                  /\ \E mapOrder \in MapOrders :
                        log' = log \o reported
                               \o (IF MapLen(validationErrors) = 0
                                   THEN <<LogEntry("info", "Validation completed successfully with no errors.")>>
                                   ELSE <<LogEntry("info", "Validation detected the following issues:")>>
                                        \o IssueReport(RangeOrder(DOMAIN Entries(validationErrors),
                                                                  mapOrder),
                                                       Entries(validationErrors)))
                               \o <<LogEntry("info", "Running terraform fmt on directory: "
                                                     \o WorkingDir)>>
    /\ UNCHANGED <<resources, cleanedSchema, descAsCommentsFlag, mainTF, variablesTF, err,
                   jsonOutput, validationErrors, exitReturns,
                   resourcePtrs, providers, schemaJSON, filteredSchema>>

(***************************************************************************)
(* SpecRun: Run from step 6 to its end for one resource, under every       *)
(* outcome of the writes, of the two validations and of terraform fmt      *)
(***************************************************************************)
\* the filtered schema of aws_iam_role: a is optional, name optional and
\* computed, arn computed-only; with or without a nested block ebs
RunBlocks ==
    LET attributes == ("a" :> Attr(TString, FALSE, TRUE, FALSE, ""))
                      @@ ("arn" :> Attr(TString, FALSE, FALSE, TRUE, ""))
                      @@ ("name" :> Attr(TString, FALSE, TRUE, TRUE, ""))
        inner == [Attributes |-> ("a" :> Attr(TString, TRUE, FALSE, FALSE, "")),
                  NestedBlocks |-> EmptyMap, Description |-> ""]
        nested == BlockName :> [NestingMode |-> "list", MinItems |-> 0, MaxItems |-> 0,
                                Block |-> inner]
    IN {[Attributes |-> attributes, NestedBlocks |-> nb, Description |-> ""] :
          nb \in {EmptyMap, nested}}

InitRun ==
    /\ pc = "RemoveComputedAttributes"
    /\ \E mode \in {"single", "multiple"} : resources = <<Resource("aws_iam_role", mode)>>
    /\ \E b \in RunBlocks : cleanedSchema = SchemaOf("aws_iam_role" :> b)
    /\ descAsCommentsFlag = FALSE
    /\ mainTF = NoFile
    /\ variablesTF = NoFile
    /\ err = ""
    /\ jsonOutput = NoJSON
    /\ validationErrors = NilMap
    /\ log = <<LogEntry("info", "Removing computed-only attributes from the filtered schema...")>>
    /\ exitReturns \in BOOLEAN
    /\ failures = {}
    /\ resourcePtrs = <<>>
    /\ providers = EmptyMap
    /\ schemaJSON = NilBlock
    /\ filteredSchema = NilBlock

RunStep6 == RemoveComputedAttributes("RemoveComputedAttributes", "RemoveComputedAttributes.returned")

RunToStep7 ==
    RunBetween("RemoveComputedAttributes.returned", "CreateMainTF", "", <<"Generating main.tf...">>)

RunStep7 == CreateMainTF("CreateMainTF", "CreateMainTF.returned")

RunToStep8 ==
    RunBetween("CreateMainTF.returned", "CreateVariablesTF", "Error creating main.tf: ",
               <<"Generating variables.tf...">>)

RunStep8 ==
    \E mapOrder \in MapOrders :
       CreateVariablesTF("CreateVariablesTF", "CreateVariablesTF.returned", mapOrder)

RunToStep9 ==
    RunBetween("CreateVariablesTF.returned", "RunTerraformValidate",
               "Error creating variables.tf: ", <<RunningValidate>>)

RunStep9 == RunTerraformValidate("RunTerraformValidate", "RunTerraformValidate.returned")

RunRepair ==
    RemoveInvalidAttributesFromSchema("RemoveInvalidAttributesFromSchema",
                                      "RemoveInvalidAttributesFromSchema.returned")

RunToRegenerate ==
    RunBetween("RemoveInvalidAttributesFromSchema.returned", "RegenerateMainTF", "",
               <<"Invalid attributes removed. Regenerating main.tf and variables.tf...">>)

RunRegenerateMainTF == CreateMainTF("RegenerateMainTF", "RegenerateMainTF.returned")

RunToRegenerateVariablesTF ==
    RunBetween("RegenerateMainTF.returned", "RegenerateVariablesTF",
               "Error creating main.tf after cleaning schema: ", <<>>)

RunRegenerateVariablesTF ==
    \E mapOrder \in MapOrders :
       CreateVariablesTF("RegenerateVariablesTF", "RegenerateVariablesTF.returned", mapOrder)

RunToStep11 ==
    RunBetween("RegenerateVariablesTF.returned", "FinalValidate",
               "Error creating variables.tf after cleaning schema: ", <<RunningValidate>>)

RunStep11 == RunTerraformValidate("FinalValidate", "FinalValidate.returned")

RunStep12 == RunTerraformFmt("RunTerraformFmt", "RunTerraformFmt.returned")

RunToEnd ==
    RunBetween("RunTerraformFmt.returned", "done", "Error running terraform fmt: ",
               <<"Process completed successfully.">>)

NextRun ==
    \/ RunStep6 \/ RunToStep7 \/ RunStep7 \/ RunToStep8 \/ RunStep8 \/ RunToStep9
    \/ RunStep9 \/ RunStep10 \/ RunRepair \/ RunToRegenerate \/ RunRegenerateMainTF
    \/ RunToRegenerateVariablesTF \/ RunRegenerateVariablesTF \/ RunToStep11
    \/ RunStep11 \/ RunReport \/ RunStep12 \/ RunToEnd

SpecRun == InitRun /\ [][NextRun]_vars

\* the name between the leftmost `before` that some `after` follows on the same
\* line and the first `after` behind it: <<name>>, or <<>> when there is none
NameBetween(s, before, after) ==
    LET Ends(i) == {j \in (i + Len(before))..Len(s) :
                      /\ HasPrefixAt(s, j, after)
                      /\ ~Contains(SubSeq(s, i + Len(before), j - 1), "\n")}
        starts == {i \in 1..Len(s) : HasPrefixAt(s, i, before) /\ Ends(i) # {}}
    IN IF starts = {} THEN <<>>
       ELSE <<SubSeq(s, Min(starts) + Len(before), Min(Ends(Min(starts))) - 1)>>

\* the longest word behind the leftmost `before` that a word character follows
WordBehind(s, before) ==
    LET starts == {i \in 1..Len(s) :
                     /\ HasPrefixAt(s, i, before)
                     /\ i + Len(before) <= Len(s)
                     /\ Char(s, i + Len(before)) \in WordChars}
        a == Min(starts) + Len(before)
        ends == {j \in a..Len(s) : \A k \in a..j : Char(s, k) \in WordChars}
    IN IF starts = {} THEN <<>>
       ELSE <<SubSeq(s, a, CHOOSE j \in ends : \A k \in ends : k <= j)>>

\* the trimmed token left of the first = of the code, when there is one
TokenLeftOfEquals(code) ==
    IF ~Contains(code, "=") \/ TrimSpace(SubSeq(code, 1, IndexFrom(code, "=", 1) - 1)) = ""
    THEN <<>>
    ELSE <<TrimSpace(SubSeq(code, 1, IndexFrom(code, "=", 1) - 1))>>

\* the fallback chain as the specification orders it
FallbackChain(diagnostic) ==
    LET fromDetail == NameBetween(diagnostic.Detail, "Can't configure a value for \"", "\"")
        cannotBeSet == NameBetween(diagnostic.Summary, "\"", "\": this field cannot be set")
        unknownKey == WordBehind(diagnostic.Summary, "invalid or unknown key: ")
    IN IF fromDetail # <<>> THEN fromDetail
       ELSE IF cannotBeSet # <<>> THEN cannotBeSet
       ELSE IF unknownKey # <<>> THEN unknownKey
       ELSE TokenLeftOfEquals(diagnostic.Snippet.Code)

\* the error diagnostics that resolve to the address
ErrorsAt(diagnostics, address) ==
    SelectSeq(diagnostics,
              LAMBDA d : /\ d.Severity = "error"
                         /\ ~ResolveAddress(d).skip
                         /\ ResolveAddress(d).address = address)

ResolvedAddresses(diagnostics) ==
    {ResolveAddress(diagnostics[i]).address :
       i \in {k \in 1..Len(diagnostics) : /\ diagnostics[k].Severity = "error"
                                         /\ ~ResolveAddress(diagnostics[k]).skip}}

RECURSIVE Flatten(_)
Flatten(lists) == IF lists = <<>> THEN <<>> ELSE Head(lists) \o Flatten(Tail(lists))

\* the list returned under an address; empty when the address is no key
ListAt(m, address) ==
    IF address \in DOMAIN Entries(m) THEN Entries(m)[address] ELSE <<>>

Parsed == pc = "done" /\ jsonOutput.wellFormed /\ err = ""

\* C8: for every error diagnostic with a resolved address the attribute
\* appended is the first that the chain detail (Can't configure a value for),
\* summary (this field cannot be set), summary (invalid or unknown key), code
\* (token left of the first =) yields: a later step is not used when an earlier
\* one matches, and a matching diagnostic appends exactly one attribute.
C8_FallbackChain ==
    Parsed =>
       \A address \in ResolvedAddresses(jsonOutput.diagnostics) \cup DOMAIN Entries(validationErrors) :
          LET errors == ErrorsAt(jsonOutput.diagnostics, address)
          IN ListAt(validationErrors, address)
               = Flatten([i \in 1..Len(errors) |-> FallbackChain(errors[i])])

\* one diagnostic whose detail, summary and code each offer a name: the name
\* of the detail is the one returned
C8_Witness ==
    /\ Parsed
    /\ jsonOutput.diagnostics
         = <<Diagnostic("error", "aws_instance.example", KeyNameCannotBeSet,
                        CantConfigureUserData, "", "ami = 1")>>
    /\ Entries(validationErrors) = ("aws_instance.example" :> <<"user_data">>)

\* C9: the list returned for an address is the subsequence, in input order and
\* with duplicates kept, of the attributes extracted from the error
\* diagnostics that resolve to that address.
C9_AppendOnMatch ==
    Parsed =>
       /\ \A address \in ResolvedAddresses(jsonOutput.diagnostics) :
             LET errors == ErrorsAt(jsonOutput.diagnostics, address)
                 extracted == SelectSeq([i \in 1..Len(errors) |-> ExtractAttribute(errors[i])],
                                        LAMBDA e : e.append)
             IN ListAt(validationErrors, address)
                  = [i \in 1..Len(extracted) |-> extracted[i].attribute]
       /\ \A address \in DOMAIN Entries(validationErrors) :
             /\ address \in ResolvedAddresses(jsonOutput.diagnostics)
             /\ Entries(validationErrors)[address] # <<>>

\* two diagnostics of one address with the same attribute, a diagnostic of
\* another address between them
C9_Witness ==
    /\ Parsed
    /\ Len(jsonOutput.diagnostics) = 3
    /\ jsonOutput.diagnostics[2].Address = "panos_security_policy.example"
    /\ Entries(validationErrors)
         = ("aws_instance.example" :> <<"key_name", "key_name">>)
           @@ ("panos_security_policy.example" :> <<"id">>)

\* C10: on validator output that cannot be decoded ParseValidationErrorsFromJSON
\* returns an error and a nil map, RunTerraformValidate hands that on as an
\* error with a nil map, and what the repair step would be given is empty.
C10_NoPartialOutput ==
    (pc = "done" /\ ~jsonOutput.wellFormed) =>
       /\ err # ""
       /\ validationErrors = NilMap
       /\ LET r == ValidateResult(Returned(validationErrors, err))
          IN /\ r.map = NilMap
             /\ r.err = "failed to parse validation errors from terraform validate output: " \o err
             /\ MapLen(r.map) = 0

\* the parser has returned from undecodable output
C10_Witness ==
    /\ pc = "done"
    /\ jsonOutput = NoJSON
    /\ err = "failed to parse JSON output from terraform validate: " \o UnmarshalError

\* the positions in the log of the entries with this message
Logged(message) == {i \in 1..Len(log) : log[i].message = message}

ValidatorCalls == Logged("Running terraform validate in directory: " \o WorkingDir)

RepairCalls == Logged("Starting to remove invalid attributes from the schema...")

GenerationCalls(file) ==
    Logged("Starting to generate " \o file \o " in directory: " \o WorkingDir)

\* the entries in which RunTerraformValidate records what it returns
ValidatorResults ==
    {i \in 1..Len(log) : HasPrefix(log[i].message, "Terraform validate completed ")}

\* the first validation returned a non-empty rejection map
FirstValidationRejected ==
    /\ ValidatorResults # {}
    /\ HasPrefix(log[Min(ValidatorResults)].message, "Terraform validate completed with ")

\* C7: a run of Run that reaches its end has invoked the validator exactly
\* twice; it has repaired the schema and regenerated both artifacts once if the
\* first validation returned a non-empty rejection map and not at all
\* otherwise; nothing is repaired or regenerated after the second validation.
C7_SingleRetry ==
    pc = "done" =>
       /\ Cardinality(ValidatorCalls) = 2
       /\ Cardinality(RepairCalls) = (IF FirstValidationRejected THEN 1 ELSE 0)
       /\ Cardinality(GenerationCalls("main.tf")) = 1 + Cardinality(RepairCalls)
       /\ Cardinality(GenerationCalls("variables.tf")) = 1 + Cardinality(RepairCalls)
       /\ \A i \in RepairCalls \cup GenerationCalls("main.tf") \cup GenerationCalls("variables.tf") :
             \E j \in ValidatorCalls : i < j /\ \A k \in ValidatorCalls : k <= j

\* a run that repaired once, whose second validation still rejects an
\* attribute, and that went on to its end
C7_Witness ==
    /\ pc = "done"
    /\ Cardinality(RepairCalls) = 1
    /\ MapLen(validationErrors) > 0
    /\ "a" \notin DOMAIN RootBlock.Attributes

(***************************************************************************)
(* Nested blocks without an inner Block                                    *)
(***************************************************************************)
RECURSIVE HasNilBlock(_)
\* some nested block of block, at any depth, has a nil inner Block
HasNilBlock(block) ==
    \E b \in DOMAIN block.NestedBlocks :
       \/ IsNil(block.NestedBlocks[b].Block)
       \/ HasNilBlock(block.NestedBlocks[b].Block)

RECURSIVE ValidNamesOf(_, _, _)
\* the attributes and the nested blocks with an inner Block, level by level
ValidNamesOf(names, block, depth) ==
    IF names = <<>> THEN <<>>
    ELSE LET name == Head(names)
             here == IF name \in DOMAIN block.Attributes THEN <<Emitted(depth, name)>>
                     ELSE IF IsNil(block.NestedBlocks[name].Block) THEN <<>>
                     ELSE <<Emitted(depth, name)>>
                          \o ValidNamesOf(
                               SortStrings((DOMAIN block.NestedBlocks[name].Block.Attributes)
                                 \cup (DOMAIN block.NestedBlocks[name].Block.NestedBlocks)),
                               block.NestedBlocks[name].Block, depth + 1)
         IN here \o ValidNamesOf(Tail(names), block, depth)

ValidNames ==
    ValidNamesOf(SortStrings((DOMAIN RootBlock.Attributes) \cup (DOMAIN RootBlock.NestedBlocks)),
                 RootBlock, 0)

\* C11: for a schema with a nested block whose inner Block is nil, at any
\* depth and in either mode, CreateMainTF and CreateVariablesTF complete
\* without failure, omit that block, and emit every other attribute and every
\* nested block that has an inner Block.
C11_NilBlocksSkipped ==
    HasNilBlock(RootBlock) =>
       /\ pc # "panic"
       /\ mainTF.written => MainNames = ValidNames
       /\ variablesTF.written => VariableNames = ValidNames

(***************************************************************************)
(* cleanupHCLFile on the bytes of a file of unstructured tokens            *)
(***************************************************************************)
MaxLines == 4

\* hclwrite.TokensForIdentifier(text), appended without a newline token
Ident(text) == [kind |-> "ident", text |-> text]

RECURSIVE Bytes(_)
\* file.Body().BuildTokens(nil).Bytes() of a body of unstructured tokens
Bytes(body) ==
    IF body = <<>> THEN ""
    ELSE (CASE Head(body).kind = "ident" -> Head(body).text
            [] Head(body).kind = "tokens" -> Head(body).text \o "\n"
            [] Head(body).kind = "newline" -> "\n")
         \o Bytes(Tail(body))

RECURSIVE Split(_, _)
\* strings.Split(s, sep) for a one-character sep
Split(s, sep) ==
    IF IndexFrom(s, sep, 1) = 0 THEN <<s>>
    ELSE <<SubSeq(s, 1, IndexFrom(s, sep, 1) - 1)>>
         \o Split(SubSeq(s, IndexFrom(s, sep, 1) + 1, Len(s)), sep)

\* the elements of seq at the indices kept, in order
Pick(seq, kept) ==
    [k \in 1..Cardinality(kept) |->
       seq[CHOOSE i \in kept : Cardinality({j \in kept : j <= i}) = k]]

\* (?m)^\s*$\n matches line i: white space only, and ended by a newline
BlankAt(lines, i) ==
    /\ i \in 1..(Len(lines) - 1)
    /\ \A k \in 1..Len(lines[i]) : Char(lines[i], k) \in Whitespace

\* (?m)(^\s*$\n){2,} replaced by "\n": a run of two or more such lines
\* becomes one empty line
CollapseBlankLines(lines) ==
    LET InRun(i) == BlankAt(lines, i) /\ (BlankAt(lines, i - 1) \/ BlankAt(lines, i + 1))
    IN Pick([i \in 1..Len(lines) |-> IF InRun(i) THEN "" ELSE lines[i]],
            {i \in 1..Len(lines) : ~(InRun(i) /\ BlankAt(lines, i - 1))})

\* (?m)(^\s*$\n){1,}(\s*}) replaced by "$2": a run of such lines goes when
\* the text behind it starts with white space and a closing brace
RemoveBlankBeforeBrace(lines) ==
    LET Behind(i) == lines[Min({j \in (i + 1)..Len(lines) : ~BlankAt(lines, j)})]
    IN Pick(lines,
            {i \in 1..Len(lines) :
               ~(/\ BlankAt(lines, i)
                 /\ HasPrefixAt(Behind(i), SkipWhile(Behind(i), 1, Whitespace), "}"))})

\* the body cleanupHCLFile leaves: the content after both replacements, split
\* at the newlines and written back as an identifier token and a newline each
CleanedBody(body) ==
    LET Written(lines) == [i \in 1..Len(lines) |-> TokenLine(lines[i])]
    IN Written(RemoveBlankBeforeBrace(CollapseBlankLines(Split(Bytes(body), "\n"))))

CleanupHCLFile(from, to) ==
    /\ pc = from
    /\ mainTF' = [mainTF EXCEPT !.body = CleanedBody(@)]
    /\ pc' = to
    /\ UNCHANGED <<resources, cleanedSchema, descAsCommentsFlag, variablesTF, err,
                   jsonOutput, validationErrors, log, exitReturns, failures,
                   resourcePtrs, providers, schemaJSON, filteredSchema>>

(***************************************************************************)
(* SpecCleanup: cleanupHCLFile applied, and applied again, to every file   *)
(* content of up to MaxLines lines                                         *)
(***************************************************************************)
\* a line of the bounded contents, without its newline
CleanupLines == {"", " ", "a", "}", "  }"}

RECURSIVE JoinLines(_)
JoinLines(lines) ==
    IF Len(lines) = 1 THEN lines[1] ELSE lines[1] \o "\n" \o JoinLines(Tail(lines))

\* the contents: what strings.Split cuts into 1..MaxLines pieces; a content
\* that ends with a newline has the empty string as its last piece
CleanupContents ==
    {JoinLines(lines) : lines \in UNION {[1..n -> CleanupLines] : n \in 1..MaxLines}}

InitCleanup ==
    /\ pc = "cleanupHCLFile"
    /\ \E content \in CleanupContents : mainTF = FileOf(<<Ident(content)>>)
    /\ resources = <<>>
    /\ cleanedSchema = EmptyMap
    /\ descAsCommentsFlag = FALSE
    /\ variablesTF = NoFile
    /\ err = ""
    /\ jsonOutput = NoJSON
    /\ validationErrors = NilMap
    /\ log = <<>>
    /\ exitReturns = FALSE
    /\ failures = {}
    /\ resourcePtrs = <<>>
    /\ providers = EmptyMap
    /\ schemaJSON = NilBlock
    /\ filteredSchema = NilBlock

NextCleanup ==
    \/ CleanupHCLFile("cleanupHCLFile", "cleanupHCLFile.again")
    \/ CleanupHCLFile("cleanupHCLFile.again", "done")

SpecCleanup == InitCleanup /\ [][NextCleanup]_vars

\* the text lines of a content: a final newline ends the last line
TextLines(content) ==
    LET InText(pieces) == IF pieces[Len(pieces)] = ""
                          THEN SubSeq(pieces, 1, Len(pieces) - 1) ELSE pieces
    IN InText(Split(content, "\n"))

IsBlankLine(line) == \A k \in 1..Len(line) : Char(line, k) \in Whitespace

\* a line whose first non-space character is a closing brace
IsBraceLine(line) == HasPrefixAt(line, SkipWhile(line, 1, Whitespace), "}")

NonBlankLines(lines) == SelectSeq(lines, LAMBDA line : ~IsBlankLine(line))

\* the runs of blank lines of lines that no closing-brace line follows, each
\* named by the index of its first line
RunsToKeep(lines) ==
    {i \in 1..Len(lines) :
       /\ IsBlankLine(lines[i])
       /\ (i = 1 \/ ~IsBlankLine(lines[i - 1]))
       /\ \A j \in (i + 1)..Len(lines) :
             (\A k \in i..(j - 1) : IsBlankLine(lines[k])) => ~IsBraceLine(lines[j])}

\* C12: cleanupHCLFile is idempotent: applied to what it has produced, it
\* leaves exactly the same bytes.
C12_CleanupIdempotent ==
    [][pc = "cleanupHCLFile.again" => Bytes(mainTF'.body) = Bytes(mainTF.body)]_vars

\* C13: after cleanupHCLFile the content has no two consecutive blank lines
\* and no blank line right before a line whose first non-space character is a
\* closing brace; every run of blank lines not before such a line has left
\* exactly one blank line, and the non-blank lines are the ones of the input,
\* unchanged and in their order.
C13_BlankLinesCollapsed ==
    [][pc = "cleanupHCLFile" =>
         LET before == TextLines(Bytes(mainTF.body))
             after == TextLines(Bytes(mainTF'.body))
         IN /\ \A i \in 1..(Len(after) - 1) :
                  ~(IsBlankLine(after[i]) /\ IsBlankLine(after[i + 1]))
            /\ \A i \in 1..(Len(after) - 1) :
                  ~(IsBlankLine(after[i]) /\ IsBraceLine(after[i + 1]))
            /\ Cardinality({i \in 1..Len(after) : IsBlankLine(after[i])})
                 = Cardinality(RunsToKeep(before))
            /\ NonBlankLines(after) = NonBlankLines(before)]_vars

(***************************************************************************)
(* Schema Filter: FilterSchema                                             *)
(***************************************************************************)
MaxResources == 2

\* filteredProviderSchema: the resource schemas of one provider whose names are
\* required
FilterProviderSchema(providerSchema, requiredResources) ==
    [ResourceSchemas |->
        [r \in (DOMAIN providerSchema.ResourceSchemas) \cap requiredResources |->
           providerSchema.ResourceSchemas[r]]]

\* a filter that adds every provider, also one left without resources
FilterSchemaOf_KeepEmptyProviders(providerSchemas, rs) ==
    [FormatVersion |-> providerSchemas.FormatVersion,
     Schemas |-> [k \in DOMAIN providerSchemas.Schemas |->
                    FilterProviderSchema(providerSchemas.Schemas[k],
                                         {rs[i].Name : i \in 1..Len(rs)})]]

\* what FilterSchema returns
FilterSchemaOf(providerSchemas, rs) ==
    LET Filtered(requiredResources) ==
            [FormatVersion |-> providerSchemas.FormatVersion,
             Schemas |->
                [k \in {p \in DOMAIN providerSchemas.Schemas :
                          (DOMAIN providerSchemas.Schemas[p].ResourceSchemas)
                             \cap requiredResources # {}} |->
                   FilterProviderSchema(providerSchemas.Schemas[k], requiredResources)]]
    IN Filtered({rs[i].Name : i \in 1..Len(rs)})

FilterSchema(from, to) ==
    /\ pc = from
    /\ filteredSchema' = FilterSchemaOf(schemaJSON, resources)
    /\ log' = log \o <<LogEntry("info", "Starting to filter provider schemas for required resources..."),
                       LogEntry("info", "Completed filtering provider schemas.")>>
    /\ pc' = to
    /\ UNCHANGED <<resources, cleanedSchema, descAsCommentsFlag, mainTF, variablesTF, err,
                   jsonOutput, validationErrors, exitReturns, failures,
                   resourcePtrs, providers, schemaJSON>>

(***************************************************************************)
(* SpecFilter: FilterSchema over every bounded provider schema and every   *)
(* list of up to MaxResources requested resources                          *)
(***************************************************************************)
\* the resource names each provider of the bounded schemas may have; both may
\* have one of the same name
FetchedResourceNames ==
    ("registry.terraform.io/hashicorp/aws" :> {"aws_instance", "aws_vpc", "shared"})
    @@ ("registry.terraform.io/hashicorp/random" :> {"random_id", "shared"})

\* the provider schemas of one provider: any of its resources, each with a
\* Block of its own
FetchedProviderSchemas(providerKey) ==
    {[ResourceSchemas |->
        [r \in names |-> [Block |-> [Attributes |-> EmptyMap, NestedBlocks |-> EmptyMap,
                                     Description |-> providerKey \o "/" \o r]]]] :
       names \in SUBSET FetchedResourceNames[providerKey]}

FetchedSchemas ==
    UNION {{[FormatVersion |-> v, Schemas |-> s] :
              v \in {"0.2", "1.0"},
              s \in {f \in [keys -> UNION {FetchedProviderSchemas(k) : k \in keys}] :
                       \A k \in keys : f[k] \in FetchedProviderSchemas(k)}} :
             keys \in SUBSET DOMAIN FetchedResourceNames}

RequestedNames == {"aws_instance", "random_id", "shared", "null_resource"}

RequestedResources ==
    UNION {[1..n -> {Resource(name, "multiple") : name \in RequestedNames}] :
             n \in 0..MaxResources}

InitFilter ==
    /\ pc = "FilterSchema"
    /\ schemaJSON \in FetchedSchemas
    /\ resources \in RequestedResources
    /\ filteredSchema = NilBlock
    /\ cleanedSchema = EmptyMap
    /\ descAsCommentsFlag = FALSE
    /\ mainTF = NoFile
    /\ variablesTF = NoFile
    /\ err = ""
    /\ jsonOutput = NoJSON
    /\ validationErrors = NilMap
    /\ log = <<>>
    /\ exitReturns = FALSE
    /\ failures = {}
    /\ resourcePtrs = <<>>
    /\ providers = EmptyMap

NextFilter == FilterSchema("FilterSchema", "done")

SpecFilter == InitFilter /\ [][NextFilter]_vars

\* the (providerKey, resourceName) pairs of a *tfjson.ProviderSchemas
SchemaPairs(providerSchemas) ==
    UNION {{<<k, r>> : r \in DOMAIN providerSchemas.Schemas[k].ResourceSchemas} :
             k \in DOMAIN providerSchemas.Schemas}

\* C14: FilterSchema returns a schema whose (providerKey, resourceName) pairs
\* are exactly the pairs of the input whose resourceName is requested; it has
\* no provider entry without resources, and it keeps the input's
\* FormatVersion.
C14_FilterExact ==
    pc = "done" =>
       /\ SchemaPairs(filteredSchema)
            = {p \in SchemaPairs(schemaJSON) :
                 \E i \in 1..Len(resources) : resources[i].Name = p[2]}
       /\ \A k \in DOMAIN filteredSchema.Schemas :
             DOMAIN filteredSchema.Schemas[k].ResourceSchemas # {}
       /\ filteredSchema.FormatVersion = schemaJSON.FormatVersion

\* a provider is dropped because none of its resources is requested, while
\* the other keeps one resource and loses another
C14_Witness ==
    /\ pc = "done"
    /\ DOMAIN schemaJSON.Schemas = DOMAIN FetchedResourceNames
    /\ DOMAIN filteredSchema.Schemas = {"registry.terraform.io/hashicorp/aws"}
    /\ SchemaPairs(filteredSchema) = {<<"registry.terraform.io/hashicorp/aws", "aws_instance">>}
    /\ <<"registry.terraform.io/hashicorp/aws", "aws_vpc">> \in SchemaPairs(schemaJSON)
    /\ <<"registry.terraform.io/hashicorp/random", "shared">> \in SchemaPairs(schemaJSON)

(***************************************************************************)
(* Parser: ParseResources                                                  *)
(***************************************************************************)
ProviderOf(namespace, name) ==
    [Namespace |-> namespace, Name |-> name, Version |-> ">= 0",
     NamespaceLower |-> namespace, NameLower |-> name]

\* fmt's %+v of a Provider
ProviderString(provider) ==
    "{Namespace:" \o provider.Namespace \o " Name:" \o provider.Name
    \o " Version:" \o provider.Version
    \o " NamespaceLower:" \o provider.NamespaceLower
    \o " NameLower:" \o provider.NameLower \o "}"

\* the keys of the providers the range at 136-141 may stop at: the map is
\* visited in any order, and the first provider whose NameLower is a prefix of
\* the resource's name is taken
AssociatedProviders(name, providerMap) ==
    {k \in DOMAIN providerMap : HasPrefix(name, providerMap[k].NameLower)}

\* return nil, fmt.Errorf(...)
ParseFailed(message, logged) == [resources |-> <<>>, err |-> message, log |-> logged]

\* a loop that does not count the resources of mode single
RECURSIVE ParseLoop_Uncounted(_, _, _, _, _)
ParseLoop_Uncounted(resourcePtrs_, providerMap, parsed, singleModeCount, logged) ==
    IF resourcePtrs_ = <<>> THEN {[resources |-> parsed, err |-> "", log |-> logged]}
    ELSE LET Iteration(name, mode) ==
                 IF mode # "single" /\ mode # "multiple"
                 THEN {ParseFailed("invalid mode for resource '" \o name \o "': " \o mode
                                   \o ". Use 'single' or 'multiple'", logged)}
                 ELSE IF AssociatedProviders(name, providerMap) = {}
                 THEN {ParseFailed("no matching provider found for resource: " \o name, logged)}
                 ELSE UNION {ParseLoop_Uncounted(Tail(resourcePtrs_), providerMap,
                                Append(parsed, [Name |-> name, Mode |-> mode,
                                                Provider |-> providerMap[k]]),
                                singleModeCount,
                                Append(logged, LogEntry("debug",
                                   "Parsed resource: " \o name \o " with mode: " \o mode
                                   \o ", associated provider: "
                                   \o ProviderString(providerMap[k])))) :
                               k \in AssociatedProviders(name, providerMap)}
             Parts(parts) ==
                 Iteration(parts[1], IF Len(parts) > 1 THEN parts[2] ELSE "multiple")
         IN Parts(Split(Head(resourcePtrs_), ":"))

\* the loop of ParseResources over the resource strings left, with the
\* resources parsed, the count of single ones and the entries logged so far:
\* every outcome the order of the range over providers allows
RECURSIVE ParseLoop(_, _, _, _, _)
ParseLoop(resourcePtrs_, providerMap, parsed, singleModeCount, logged) ==
    IF resourcePtrs_ = <<>> THEN {[resources |-> parsed, err |-> "", log |-> logged]}
    ELSE LET Iteration(name, mode, count) ==
                 IF mode # "single" /\ mode # "multiple"
                 THEN {ParseFailed("invalid mode for resource '" \o name \o "': " \o mode
                                   \o ". Use 'single' or 'multiple'", logged)}
                 ELSE IF mode = "single" /\ count > 1
                 THEN {ParseFailed("only one resource of type 'single' is supported, due to potentially conflicting variable names", logged)}
                 ELSE IF AssociatedProviders(name, providerMap) = {}
                 THEN {ParseFailed("no matching provider found for resource: " \o name, logged)}
                 ELSE UNION {ParseLoop(Tail(resourcePtrs_), providerMap,
                                Append(parsed, [Name |-> name, Mode |-> mode,
                                                Provider |-> providerMap[k]]),
                                count,
                                Append(logged, LogEntry("debug",
                                   "Parsed resource: " \o name \o " with mode: " \o mode
                                   \o ", associated provider: "
                                   \o ProviderString(providerMap[k])))) :
                               k \in AssociatedProviders(name, providerMap)}
             Mode(name, mode) ==
                 Iteration(name, mode,
                           IF mode = "single" THEN singleModeCount + 1 ELSE singleModeCount)
             Parts(parts) ==
                 Mode(parts[1], IF Len(parts) > 1 THEN parts[2] ELSE "multiple")
         IN Parts(Split(Head(resourcePtrs_), ":"))

ParseResources(from, to) ==
    /\ pc = from
    /\ \E returned \in ParseLoop(resourcePtrs, providers, <<>>, 0, <<>>) :
          /\ resources' = returned.resources
          /\ err' = returned.err
          /\ log' = log \o returned.log
          /\ pc' = IF returned.err = "" THEN to ELSE "failed"
    /\ UNCHANGED <<cleanedSchema, descAsCommentsFlag, mainTF, variablesTF,
                   jsonOutput, validationErrors, exitReturns, failures,
                   resourcePtrs, providers, schemaJSON, filteredSchema>>

(***************************************************************************)
(* SpecResources: ParseResources over every list of up to MaxResources     *)
(* resource strings and every map of the providers named                   *)
(***************************************************************************)
ResourceStrings ==
    {"aws_instance", "aws_instance:single", "aws_vpc:multiple", "awscc_thing:single",
     "random_id:both", "null_resource", "aws_vpc:", "aws_s3:single:x"}

\* what ParseProviders returns of hashicorp/aws, hashicorp/awscc and
\* hashicorp/random, any of them given
ProviderMaps ==
    {[k \in keys |-> ProviderOf("hashicorp", SubSeq(k, 11, Len(k)))] :
       keys \in SUBSET {"hashicorp/aws", "hashicorp/awscc", "hashicorp/random"}}

InitResources ==
    /\ pc = "ParseResources"
    /\ resourcePtrs \in UNION {[1..n -> ResourceStrings] : n \in 0..MaxResources}
    /\ providers \in ProviderMaps
    /\ resources = <<>>
    /\ schemaJSON = NilBlock
    /\ filteredSchema = NilBlock
    /\ cleanedSchema = EmptyMap
    /\ descAsCommentsFlag = FALSE
    /\ mainTF = NoFile
    /\ variablesTF = NoFile
    /\ err = ""
    /\ jsonOutput = NoJSON
    /\ validationErrors = NilMap
    /\ log = <<>>
    /\ exitReturns = FALSE
    /\ failures = {}

NextResources == ParseResources("ParseResources", "done")

SpecResources == InitResources /\ [][NextResources]_vars

\* the mode a resource string names: what follows its first colon, up to the
\* next one
NamedMode(resourceStr) ==
    IF ~Contains(resourceStr, ":") THEN "multiple"
    ELSE LET Rest(rest) ==
                 IF Contains(rest, ":") THEN SubSeq(rest, 1, IndexFrom(rest, ":", 1) - 1)
                 ELSE rest
         IN Rest(SubSeq(resourceStr, IndexFrom(resourceStr, ":", 1) + 1, Len(resourceStr)))

\* the name a resource string gives: what precedes its first colon
NamedResource(resourceStr) ==
    IF ~Contains(resourceStr, ":") THEN resourceStr
    ELSE SubSeq(resourceStr, 1, IndexFrom(resourceStr, ":", 1) - 1)

\* C15: ParseResources returns an error whenever the input names two or more
\* resources with mode single; a successful result has at most one resource
\* of Mode single, only the modes single and multiple (multiple when none is
\* given), and the resources in the order of the input.
C15_SingleCardinality ==
    pc \in {"done", "failed"} =>
       /\ Cardinality({i \in 1..Len(resourcePtrs) : NamedMode(resourcePtrs[i]) = "single"}) >= 2
             => pc = "failed" /\ err # ""
       /\ pc = "done" =>
             /\ err = ""
             /\ Cardinality({i \in 1..Len(resources) : resources[i].Mode = "single"}) <= 1
             /\ Len(resources) = Len(resourcePtrs)
             /\ \A i \in 1..Len(resources) :
                   /\ resources[i].Mode \in {"single", "multiple"}
                   /\ resources[i].Mode = NamedMode(resourcePtrs[i])
                   /\ resources[i].Name = NamedResource(resourcePtrs[i])

\* two resources of mode single are refused although each has a provider
C15_Witness ==
    /\ pc = "failed"
    /\ resourcePtrs = <<"aws_instance:single", "awscc_thing:single">>
    /\ DOMAIN providers = {"hashicorp/aws", "hashicorp/awscc"}
    /\ err = "only one resource of type 'single' is supported, due to potentially conflicting variable names"

(***************************************************************************)
(* Write failures of the generators                                        *)
(***************************************************************************)
\* C16: when the write of main.tf or variables.tf fails, CreateMainTF /
\* CreateVariablesTF returns an error whose message contains 'failed to write
\* main.tf to <path>' / 'failed to write variables.tf to <path>' with the
\* path of the file, and never returns success.
C16_WriteFailureNamesPath ==
    [][/\ (pc = "CreateMainTF" /\ pc' = "CreateVariablesTF" /\ ~mainTF'.written)
          => /\ err' # ""
             /\ HasPrefix(err', "failed to write main.tf to terraform/main.tf")
       /\ (pc = "CreateVariablesTF" /\ pc' = "done" /\ ~variablesTF'.written)
          => /\ err' # ""
             /\ HasPrefix(err', "failed to write variables.tf to terraform/variables.tf")]_vars

\* main.tf was written, variables.tf could not be
C16_Witness ==
    /\ pc = "done"
    /\ mainTF.written
    /\ ~variablesTF.written
    /\ err = "failed to write variables.tf to terraform/variables.tf: open terraform/variables.tf: permission denied"

(***************************************************************************)
(* The order of terraform fmt and the final terraform validate in Run      *)
(***************************************************************************)
\* Run has called RunTerraformFmt
FmtExecuted ==
    \E i \in 1..Len(log) :
       log[i] = LogEntry("info", "Running terraform fmt on directory: " \o WorkingDir)

\* C17: in every complete run terraform fmt is executed on the (re)generated
\* files before the final terraform validate is executed.
C17_FmtBeforeFinalValidate ==
    pc = "FinalValidate" =>
       /\ FmtExecuted
       /\ mainTF.written => mainTF.formatted
       /\ variablesTF.written => variablesTF.formatted

(***************************************************************************)
(* Address resolution and the diagnostics that contribute                  *)
(***************************************************************************)
\* the non-empty texts between a double quote of s and the next one
QuotedTexts(s) ==
    {SubSeq(s, i + 1, IndexFrom(s, "\"", i + 1) - 1) :
       i \in {k \in 1..Len(s) : /\ Char(s, k) = "\""
                                /\ IndexFrom(s, "\"", k + 1) > k + 1}}

\* the runs of white space of s that no white space precedes or follows
BlankRuns(s) ==
    {SubSeq(s, i, SkipWhile(s, i, Whitespace) - 1) :
       i \in {k \in 1..Len(s) : /\ Char(s, k) \in Whitespace
                                /\ k > 1 => Char(s, k - 1) \notin Whitespace}}

\* <type>.<name> of every resource "<type>" "<name>" that occurs in context
ResourceShapes(context) ==
    {t \o "." \o n :
       <<t, n>> \in {p \in QuotedTexts(context) \X QuotedTexts(context) :
                       \E w \in BlankRuns(context) \X BlankRuns(context) :
                          Contains(context,
                                   "resource" \o w[1] \o "\"" \o p[1] \o "\""
                                   \o w[2] \o "\"" \o p[2] \o "\"")}}

\* the addresses the diagnostic may be filed under as the specification has
\* it: its address when it has one, else a shape of its context, else none
ClaimedAddresses(diagnostic) ==
    IF diagnostic.Address # "" THEN {diagnostic.Address}
    ELSE ResourceShapes(diagnostic.Snippet.Context)

\* the positions of the error diagnostics that yield an attribute and are
\* filed under the address
Contributing(diagnostics, address) ==
    {i \in 1..Len(diagnostics) :
       /\ diagnostics[i].Severity = "error"
       /\ FallbackChain(diagnostics[i]) # <<>>
       /\ address \in ClaimedAddresses(diagnostics[i])}

\* C18: the key an error diagnostic is filed under is its address verbatim
\* when that is non-empty, otherwise <type>.<name> of the resource "<type>"
\* "<name>" in snippet.context; a diagnostic with neither is skipped and adds
\* nothing, even when its detail, summary or code yields an attribute.
C18_AddressResolution ==
    Parsed =>
       \A address \in DOMAIN Entries(validationErrors)
                      \cup UNION {ClaimedAddresses(jsonOutput.diagnostics[i]) :
                                    i \in 1..Len(jsonOutput.diagnostics)} :
          Len(ListAt(validationErrors, address))
            = Cardinality(Contributing(jsonOutput.diagnostics, address))

\* a diagnostic filed under its address, one filed under the resource of its
\* context, and one with a detail that names an attribute but with neither
\* address nor resource in its context
C18_Witness ==
    /\ Parsed
    /\ jsonOutput.diagnostics
         = <<Diagnostic("error", "panos_security_policy.example", "invalid or unknown key: id",
                        "", "resource \"panos_security_policy\" \"example\" {", ""),
             Diagnostic("error", "", "", CantConfigureUserData, "locals {", "ami = 1"),
             Diagnostic("error", "", "", CantConfigureUserData, ResourceContext,
                        "user_data = <<EOF\n# User data script\nEOF")>>
    /\ Entries(validationErrors)
         = ("panos_security_policy.example" :> <<"id">>)
           @@ ("aws_instance.example" :> <<"user_data">>)

\* the number of attributes in the lists of a map[string][]string
RECURSIVE TotalAppended(_)
TotalAppended(entries) ==
    IF DOMAIN entries = {} THEN 0
    ELSE LET Rest(address) ==
                 Len(entries[address])
                 + TotalAppended([a \in DOMAIN entries \ {address} |-> entries[a]])
         IN Rest(CHOOSE address \in DOMAIN entries : TRUE)

\* the positions of the error diagnostics that have an address, their own or
\* that of their context, and yield an attribute
Yielding(diagnostics) ==
    {i \in 1..Len(diagnostics) :
       /\ diagnostics[i].Severity = "error"
       /\ ClaimedAddresses(diagnostics[i]) # {}
       /\ FallbackChain(diagnostics[i]) # <<>>}

\* C19: the map ParseValidationErrorsFromJSON returns has a key only for an
\* address to which an attribute was appended, so every list in it is
\* non-empty; a diagnostic of another severity than "error", or one no
\* pattern matches, neither creates a key nor appends a name.
C19_OnlyErrorsContribute ==
    Parsed =>
       /\ validationErrors # NilMap
       /\ \A address \in DOMAIN Entries(validationErrors) :
             /\ Entries(validationErrors)[address] # <<>>
             /\ \E i \in Yielding(jsonOutput.diagnostics) :
                   /\ address \in ClaimedAddresses(jsonOutput.diagnostics[i])
                   /\ \E k \in 1..Len(Entries(validationErrors)[address]) :
                         <<Entries(validationErrors)[address][k]>>
                           = FallbackChain(jsonOutput.diagnostics[i])
       /\ TotalAppended(Entries(validationErrors))
            = Cardinality(Yielding(jsonOutput.diagnostics))

\* a warning whose detail names an attribute and an error that no pattern
\* matches, with one error that names an attribute between them
C19_Witness ==
    /\ Parsed
    /\ jsonOutput.diagnostics
         = <<Diagnostic("warning", "aws_instance.example", KeyNameCannotBeSet,
                        CantConfigureUserData, "", "ami = 1"),
             Diagnostic("error", "panos_security_policy.example", "invalid or unknown key: id",
                        "", "resource \"panos_security_policy\" \"example\" {", ""),
             Diagnostic("error", "aws_instance.example", "Unsupported argument", "", "", " = 1")>>
    /\ Entries(validationErrors) = ("panos_security_policy.example" :> <<"id">>)

(***************************************************************************)
(* SpecShapes: both generators over the nesting modes and item bounds of   *)
(* nested blocks, at every depth up to MaxDepth                            *)
(***************************************************************************)
\* nesting_mode / min_items / max_items as providers declare nested blocks: a
\* single block, a list of any length, a list of at most one block, a set
CardinalityShapes ==
    { [NestingMode |-> "single", MinItems |-> 0, MaxItems |-> 0],
      [NestingMode |-> "single", MinItems |-> 1, MaxItems |-> 1],
      [NestingMode |-> "list", MinItems |-> 0, MaxItems |-> 0],
      [NestingMode |-> "list", MinItems |-> 0, MaxItems |-> 1],
      [NestingMode |-> "set", MinItems |-> 1, MaxItems |-> 0] }

RECURSIVE CardinalityBlocks(_)
\* every Block of nesting depth <= d with one required attribute and at most
\* one nested block of these shapes
CardinalityBlocks(d) ==
    IF d = 0
    THEN {[Attributes |-> ("ami" :> Attr(TString, TRUE, FALSE, FALSE, "")),
           NestedBlocks |-> EmptyMap, Description |-> ""]}
    ELSE {[Attributes |-> ("ami" :> Attr(TString, TRUE, FALSE, FALSE, "")),
           NestedBlocks |-> n, Description |-> ""] :
            n \in {EmptyMap} \cup
                  { BlockName :> [NestingMode |-> s.NestingMode,
                                  MinItems |-> s.MinItems,
                                  MaxItems |-> s.MaxItems,
                                  Block |-> b] :
                      s \in CardinalityShapes, b \in CardinalityBlocks(d - 1) }}

InitShapes ==
    /\ pc = "RemoveComputedAttributes"
    /\ \E mode \in {"single", "multiple"} : resources = <<Resource("aws_instance", mode)>>
    /\ \E b \in CardinalityBlocks(MaxDepth) : cleanedSchema = SchemaOf("aws_instance" :> b)
    /\ descAsCommentsFlag \in BOOLEAN
    /\ mainTF = NoFile
    /\ variablesTF = NoFile
    /\ err = ""
    /\ jsonOutput = NoJSON
    /\ validationErrors = NilMap
    /\ log = <<>>
    /\ exitReturns = FALSE
    /\ failures = {}
    /\ resourcePtrs = <<>>
    /\ providers = EmptyMap
    /\ schemaJSON = NilBlock
    /\ filteredSchema = NilBlock

SpecShapes == InitShapes /\ [][NextGen]_vars

\* object, list or set: the cardinality a declared type opens with
ShapeOfType(typeStr) ==
    IF HasPrefix(typeStr, "optional(") THEN
       (IF HasPrefixAt(typeStr, 10, "object({") THEN "object"
        ELSE IF HasPrefixAt(typeStr, 10, "list(object({") THEN "list"
        ELSE IF HasPrefixAt(typeStr, 10, "set(object({") THEN "set" ELSE "")
    ELSE IF HasPrefix(typeStr, "object({") THEN "object"
    ELSE IF HasPrefix(typeStr, "list(object({") THEN "list"
    ELSE IF HasPrefix(typeStr, "set(object({") THEN "set"
    ELSE ""

\* the type a declaration line "<indent><name> = <type>" gives
FieldType(text) ==
    SubSeq(text, IndexFrom(text, " = ", 1) + 3, Len(text))

RECURSIVE FieldShapes(_, _)
\* the shapes of the fields named BlockName among a variable's type lines;
\* indent level 1 is depth `top`
FieldShapes(body, top) ==
    IF body = <<>> THEN <<>>
    ELSE (IF /\ Head(body).kind = "tokens"
             /\ ~StartsWithBrace(Head(body))
             /\ FieldName(Head(body).text) = BlockName
          THEN <<[depth |-> top + (LeadingSpaces(Head(body).text) \div 2) - 1,
                  shape |-> ShapeOfType(FieldType(Head(body).text))]>>
          ELSE <<>>)
         \o FieldShapes(Tail(body), top)

RECURSIVE DeclaredShapesOf(_, _)
DeclaredShapesOf(variableBlocks, mode) ==
    IF variableBlocks = <<>> THEN <<>>
    ELSE (IF mode = "multiple" THEN FieldShapes(Head(variableBlocks).body, 0)
          ELSE IF Head(variableBlocks).labels = <<BlockName>>
          THEN <<[depth |-> 0,
                  shape |-> ShapeOfType(AttributesNamed(Head(variableBlocks).body,
                                                        "type")[1].expr)]>>
               \o FieldShapes(Head(variableBlocks).body, 1)
          ELSE <<>>)
         \o DeclaredShapesOf(Tail(variableBlocks), mode)

\* the shape variables.tf declares for the nested block of each depth
DeclaredShapes ==
    DeclaredShapesOf(BlocksOfType(variablesTF.body, "variable"), resources[1].Mode)

RECURSIVE NestedBlockAt(_, _)
\* the NestedBlock named BlockName at a depth below a Block
NestedBlockAt(block, depth) ==
    IF depth = 0 THEN block.NestedBlocks[BlockName]
    ELSE NestedBlockAt(block.NestedBlocks[BlockName].Block, depth - 1)

\* C20: for every NestedBlock, at the top level and at every nested depth and
\* in both cardinality modes, the declaration is object({...}) when its
\* maxItems is 1 or its nestingMode is single, and a list or set of object
\* otherwise.
C20_DeclarationCardinality ==
    Generated =>
       \A i \in 1..Len(DeclaredShapes) :
          IF \/ NestedBlockAt(RootBlock, DeclaredShapes[i].depth).MaxItems = 1
             \/ NestedBlockAt(RootBlock, DeclaredShapes[i].depth).NestingMode = "single"
          THEN DeclaredShapes[i].shape = "object"
          ELSE DeclaredShapes[i].shape \in {"list", "set"}

(***************************************************************************)
(* Nested blocks of a nesting mode the generator has no case for           *)
(***************************************************************************)
\* the depths at which variables.tf declares the nested block
DeclaredDepths ==
    {VariableNames[i].depth : i \in {k \in 1..Len(VariableNames) :
                                       VariableNames[k].name = BlockName}}

\* C21: a NestedBlock whose nestingMode is not single, list or set is skipped
\* and never fatal: at the top level and at every nested depth, in both
\* cardinality modes, CreateVariablesTF emits no declaration or field for it.
C21_UnknownNestingModeSkipped ==
    variablesTF.written =>
       \A depth \in DeclaredDepths :
          NestedBlockAt(RootBlock, depth).NestingMode \in {"single", "list", "set"}

(***************************************************************************)
(* SpecNormalize: RemoveComputedAttributes twice over every bounded schema *)
(***************************************************************************)
InitNormalize ==
    /\ pc = "RemoveComputedAttributes"
    /\ resources = <<Resource("aws_instance", "multiple")>>
    /\ \E b \in Blocks(MaxDepth) \cup {NilBlock} :
          cleanedSchema = SchemaOf("aws_instance" :> b)
    /\ descAsCommentsFlag = FALSE
    /\ mainTF = NoFile
    /\ variablesTF = NoFile
    /\ err = ""
    /\ jsonOutput = NoJSON
    /\ validationErrors = NilMap
    /\ log = <<>>
    /\ exitReturns = FALSE
    /\ failures = {}
    /\ resourcePtrs = <<>>
    /\ providers = EmptyMap
    /\ schemaJSON = NilBlock
    /\ filteredSchema = NilBlock

NextNormalize ==
    \/ RemoveComputedAttributes("RemoveComputedAttributes", "RemoveComputedAttributes.again")
    \/ RemoveComputedAttributes("RemoveComputedAttributes.again", "done")

SpecNormalize == InitNormalize /\ [][NextNormalize]_vars

\* C22: RemoveComputedAttributes is idempotent: a second pass over its own
\* result changes nothing.
C22_PruneIdempotent ==
    [][pc = "RemoveComputedAttributes.again" => cleanedSchema' = cleanedSchema]_vars

\* two passes are done over a schema whose first pass removed the computed-only
\* id of the root Block and arn of the Block nested in it
C22_Witness ==
    /\ pc = "done"
    /\ ~IsNil(RootBlock)
    /\ DOMAIN RootBlock.Attributes = {"ami", "tags"}
    /\ BlockName \in DOMAIN RootBlock.NestedBlocks
    /\ ~IsNil(RootBlock.NestedBlocks[BlockName].Block)
    /\ DOMAIN RootBlock.NestedBlocks[BlockName].Block.Attributes = {"name"}

(***************************************************************************)
(* Rejections and the resource they were recorded for                      *)
(***************************************************************************)
\* the names rejected under the addresses <resourceKey>.<name>
OwnRejections(entries, resourceKey) ==
    UNION {ListedNames(entries[k]) :
             k \in {a \in DOMAIN entries : HasPrefix(a, resourceKey \o ".")}}

\* C23: with two resource types of which one's name is a prefix of the
\* other's, RemoveInvalidAttributesFromSchema deletes from each resource
\* exactly the attributes rejected under that resource's own address: a
\* rejection recorded for aws_iam_role_policy.this never deletes an attribute
\* of aws_iam_role, and one recorded for aws_iam_role.this is always applied
\* to aws_iam_role, whatever the order of the map iteration.
C23_RejectionsLocal ==
    [][pc = "RemoveInvalidAttributesFromSchema" =>
          \A r \in DOMAIN ResourceSchemasOf(cleanedSchema) :
             DOMAIN ResourceSchemasOf(cleanedSchema')[r].Block.Attributes
               = DOMAIN ResourceSchemasOf(cleanedSchema)[r].Block.Attributes
                 \ OwnRejections(Entries(validationErrors), r)]_vars

(***************************************************************************)
(* What the repair pass leaves in the regenerated artifacts                *)
(***************************************************************************)
\* Run has repaired the schema and regenerated both artifacts without a failure
Regenerated ==
    /\ pc = "RegenerateVariablesTF.returned"
    /\ failures = {}
    /\ err = ""
    /\ mainTF.written
    /\ variablesTF.written

\* C24: after the repair and the regeneration, for every attribute name in the
\* rejection list of a resource, the regenerated skeleton of that resource has
\* no assignment to it at any nesting depth, and the regenerated declarations
\* have no field or variable for it.
C24_RejectedStripped ==
    Regenerated =>
       \A k \in {a \in DOMAIN Entries(validationErrors) : HasPrefix(a, resources[1].Name)} :
          \A n \in ListedNames(Entries(validationErrors)[k]) :
             /\ \A i \in 1..Len(MainNames) : MainNames[i].name # n
             /\ \A i \in 1..Len(VariableNames) : VariableNames[i].name # n

(***************************************************************************)
(* The key of for_each in multiple mode                                    *)
(***************************************************************************)
\* C25: whenever CreateMainTF emits for_each = { for i in coalesce(var.P, [])
\* : i.name => i } for a resource, the list(object({...})) declaration that
\* CreateVariablesTF emits for P has a field named name, for every schema,
\* also one without an attribute name.
C25_ForEachKeyDeclared ==
    (Generated /\ AttributesNamed(BlocksOfType(mainTF.body, "resource")[1].body, "for_each")
                    = <<Attribute("for_each", ResourceForEach("instances"))>>)
       => /\ BlocksOfType(variablesTF.body, "variable")[1].labels = <<"instances">>
          /\ \E i \in 1..Len(VariableNames) : VariableNames[i] = Emitted(0, "name")

(***************************************************************************)
(* SpecNames: ParseResources, then both generators, over the resource      *)
(* lists of up to MaxResources resources of two providers                  *)
(***************************************************************************)
\* what ParseProviders returns of hashicorp/aws and hashicorp/azurerm
NamesProviders ==
    ("hashicorp/aws" :> ProviderOf("hashicorp", "aws"))
    @@ ("hashicorp/azurerm" :> ProviderOf("hashicorp", "azurerm"))

NamesResourceStrings ==
    {"aws_instance", "aws_instance:single", "aws_role", "azurerm_instance",
     "azurerm_instance:single"}

\* a Block of optional string attributes of these names
NamesBlock(names) ==
    [Attributes |-> [n \in names |-> Attr(TString, FALSE, TRUE, FALSE, "")],
     NestedBlocks |-> EmptyMap, Description |-> ""]

\* the cleaned schema of the two providers: aws_instance has an attribute
\* whose name is the plural of role
NamesSchema ==
    (ProviderKey(NamesProviders["hashicorp/aws"]) :>
        [ResourceSchemas |->
           ("aws_instance" :> [Block |-> NamesBlock({"name", "roles"})])
           @@ ("aws_role" :> [Block |-> NamesBlock({"name"})])])
    @@ (ProviderKey(NamesProviders["hashicorp/azurerm"]) :>
        [ResourceSchemas |->
           ("azurerm_instance" :> [Block |-> NamesBlock({"name", "size"})])])

InitNames ==
    /\ pc = "ParseResources"
    /\ resourcePtrs \in UNION {[1..n -> NamesResourceStrings] : n \in 1..MaxResources}
    /\ providers = NamesProviders
    /\ resources = <<>>
    /\ cleanedSchema = NamesSchema
    /\ descAsCommentsFlag \in BOOLEAN
    /\ schemaJSON = NilBlock
    /\ filteredSchema = NilBlock
    /\ mainTF = NoFile
    /\ variablesTF = NoFile
    /\ err = ""
    /\ jsonOutput = NoJSON
    /\ validationErrors = NilMap
    /\ log = <<>>
    /\ exitReturns = FALSE
    /\ failures = {}

NextNames ==
    \/ ParseResources("ParseResources", "CreateMainTF")
    \/ CreateMainTF("CreateMainTF", "CreateVariablesTF")
    \/ \E mapOrder \in MapOrders : CreateVariablesTF("CreateVariablesTF", "done", mapOrder)

SpecNames == InitNames /\ [][NextNames]_vars

\* the names of the variable declarations of variables.tf, in order
DeclarationLabels ==
    [i \in 1..Len(BlocksOfType(variablesTF.body, "variable")) |->
       BlocksOfType(variablesTF.body, "variable")[i].labels[1]]

\* C26: for every resource list accepted by ParseResources and every schema,
\* variables.tf has no two variable declarations of the same name.
C26_DeclarationNamesUnique ==
    variablesTF.written =>
       \A i, j \in 1..Len(DeclarationLabels) :
          i # j => DeclarationLabels[i] # DeclarationLabels[j]

(***************************************************************************)
(* What Run reports of a validation                                        *)
(***************************************************************************)
\* the last call of tf.Validate returned an error
LastValidateFailed ==
    \E i \in 1..Len(log) :
       /\ \A j \in ValidatorCalls : j < i
       /\ log[i].level = "warn"
       /\ HasPrefix(log[i].message, "Terraform validate command failed: ")

\* the validator output last marshalled holds a diagnostic of severity error
LastValidateReportedErrors ==
    \E i \in 1..Len(jsonOutput.diagnostics) : jsonOutput.diagnostics[i].Severity = "error"

\* C27: Run logs 'Validation completed successfully with no errors.' only if
\* the final validator invocation succeeded and returned no error-severity
\* diagnostic; a failed invocation, or error diagnostics from which no address
\* or attribute could be extracted, lead neither to that message nor to
\* skipping the repair step.
C27_CleanOnlyWhenClean ==
    [][/\ (pc = "FinalValidate.returned"
           /\ Logged("Validation completed successfully with no errors.")' # {})
          => ~LastValidateFailed /\ ~LastValidateReportedErrors
       /\ (pc = "RunTerraformValidate.returned" /\ pc' = "FinalValidate")
          => ~LastValidateFailed /\ ~LastValidateReportedErrors]_vars

(***************************************************************************)
(* Run after a failure                                                     *)
(***************************************************************************)
\* C28: once a step of Run has reported an error and exitFunc(1) was invoked,
\* no later pipeline step is executed and 'Process completed successfully.'
\* is never logged, for every exitFunc, including one that returns.
C28_FailureStopsRun ==
    failures # {} => pc = "exited" /\ Logged("Process completed successfully.") = {}

(***************************************************************************)
(* SpecTwice: both artifacts generated twice from the same schema,         *)
(* resource list and description flag                                      *)
(***************************************************************************)
TNumber == [kind |-> "primitive", name |-> "number"]

\* an object type of two fields, and a list of it
TObject == [kind |-> "object", attrs |-> ("size" :> TNumber) @@ ("zone" :> TString)]

TwiceSchema ==
    SchemaOf(("aws_instance" :>
                 [Attributes |-> ("name" :> Attr(TString, TRUE, FALSE, FALSE, "Name"))
                                 @@ ("disk" :> Attr(TObject, FALSE, TRUE, FALSE, "")),
                  NestedBlocks |-> EmptyMap, Description |-> ""])
             @@ ("aws_role" :>
                 [Attributes |-> ("name" :> Attr(TString, TRUE, FALSE, FALSE, ""))
                                 @@ ("rules" :> Attr([kind |-> "list", elem |-> TObject],
                                                     FALSE, TRUE, FALSE, "")),
                  NestedBlocks |-> EmptyMap, Description |-> ""]))

\* the resource lists requested: one or two resource types, at most one single
TwiceResources ==
    {<<Resource(n, mode)>> : n \in {"aws_instance", "aws_role"}, mode \in {"single", "multiple"}}
    \cup {<<Resource(n[1], mode), Resource(n[2], "multiple")>> :
            n \in {<<"aws_instance", "aws_role">>, <<"aws_role", "aws_instance">>},
            mode \in {"single", "multiple"}}

InitTwice ==
    /\ pc = "CreateMainTF"
    /\ resources \in TwiceResources
    /\ cleanedSchema = TwiceSchema
    /\ descAsCommentsFlag \in BOOLEAN
    /\ mainTF = NoFile
    /\ variablesTF = NoFile
    /\ err = ""
    /\ jsonOutput = NoJSON
    /\ validationErrors = NilMap
    /\ log = <<>>
    /\ exitReturns = FALSE
    /\ failures = {}
    /\ resourcePtrs = <<>>
    /\ providers = EmptyMap
    /\ schemaJSON = NilBlock
    /\ filteredSchema = NilBlock

NextTwice ==
    \/ CreateMainTF("CreateMainTF", "CreateMainTF.again")
    \/ CreateMainTF("CreateMainTF.again", "CreateVariablesTF")
    \/ \E mapOrder \in MapOrders :
          CreateVariablesTF("CreateVariablesTF", "CreateVariablesTF.again", mapOrder)
    \/ \E mapOrder \in MapOrders :
          CreateVariablesTF("CreateVariablesTF.again", "done", mapOrder)

SpecTwice == InitTwice /\ [][NextTwice]_vars

\* the resource types of the resource blocks of main.tf, in emission order
EmittedResources ==
    [i \in 1..Len(BlocksOfType(mainTF.body, "resource")) |->
        BlocksOfType(mainTF.body, "resource")[i].labels[1]]

\* C29: for a fixed schema, resource list and description flag, a second
\* invocation of CreateMainTF writes the main.tf the first one wrote and a
\* second invocation of CreateVariablesTF writes the variables.tf the first
\* one wrote, object types of two or more fields included, and main.tf holds
\* the resources in the order they were requested.
C29_GenerationDeterministic ==
    [][/\ (pc = "CreateMainTF.again" /\ mainTF.written /\ err' = "")
          => /\ mainTF' = mainTF
             /\ EmittedResources' = [i \in 1..Len(resources) |-> resources[i].Name]
       /\ (pc = "CreateVariablesTF.again" /\ variablesTF.written /\ err' = "")
          => variablesTF' = variablesTF]_vars

(***************************************************************************)
(* The provider ParseResources associates with a resource                  *)
(***************************************************************************)
\* the text of a resource name before its first underscore
TextBeforeUnderscore(name) ==
    IF ~Contains(name, "_") THEN name
    ELSE SubSeq(name, 1, IndexFrom(name, "_", 1) - 1)

\* C30: the provider ParseResources associates with a resource is the same on
\* every call: it is the provider whose lowercase name equals the text of the
\* resource name before the first underscore, also when the lowercase names
\* of several providers are prefixes of the resource name.
C30_ProviderAssociation ==
    pc = "done" =>
       \A i \in 1..Len(resources) :
          resources[i].Provider.NameLower = TextBeforeUnderscore(resources[i].Name)

====
